---------------------------- MODULE Spec2Model ----------------------------
(***************************************************************************)
(* Model of the RC beam designer (josdu21/RC_beam_designer_v2.0): the      *)
(* BeamSection constructor and the flexure, shear and torsion engines of   *)
(* src/models, with their geometry validation, load normalisation and      *)
(* derivation traces.                                                      *)
(*                                                                         *)
(* Numbers.  The program computes in Python floats.  A float is modelled   *)
(* as a decimal floating-point number of Precision significant digits:     *)
(* [k |-> "fin", m |-> mantissa, e |-> exponent] stands for m * 10^e, and  *)
(* the kinds "inf", "nan" and "exc" stand for an infinity, a not-a-number  *)
(* and a raised arithmetic exception (OverflowError of **,                 *)
(* ZeroDivisionError of /, ValueError of math.sqrt).  Every operation      *)
(* rounds its result to Precision digits, as a float operation rounds to   *)
(* 53 bits, so cancellation and overflow happen in the model as they do in *)
(* the program, at other magnitudes.                                       *)
(***************************************************************************)
EXTENDS Integers, Sequences, FiniteSets, TLC

-----------------------------------------------------------------------------
(* Decimal floating point                                                  *)

\* Significant decimal digits kept by every operation, and the largest decimal
\* exponent of a finite float (sys.float_info.max_10_exp); magnitudes under
\* 10^-MaxExp10 flush to zero.
Precision == 3
MaxExp10 == 308
MinExp10 == -MaxExp10

Pow10(k) ==
    CASE k = 0 -> 1 [] k = 1 -> 10 [] k = 2 -> 100 [] k = 3 -> 1000
      [] k = 4 -> 10000 [] k = 5 -> 100000 [] k = 6 -> 1000000
      [] k = 7 -> 10000000 [] k = 8 -> 100000000 [] k = 9 -> 1000000000

IAbs(n) == IF n < 0 THEN -n ELSE n
ISign(n) == IF n < 0 THEN -1 ELSE IF n = 0 THEN 0 ELSE 1

NumDigits(a) ==
    IF a < 10 THEN 1 ELSE IF a < 100 THEN 2 ELSE IF a < 1000 THEN 3
    ELSE IF a < 10000 THEN 4 ELSE IF a < 100000 THEN 5
    ELSE IF a < 1000000 THEN 6 ELSE IF a < 10000000 THEN 7
    ELSE IF a < 100000000 THEN 8 ELSE IF a < 1000000000 THEN 9 ELSE 10

Zero == [k |-> "fin", m |-> 0, e |-> 0]
Inf(sg) == [k |-> "inf", m |-> sg, e |-> 0]
NaN == [k |-> "nan", m |-> 0, e |-> 0]
Exc == [k |-> "exc", m |-> 0, e |-> 0]

IsFin(x) == x.k = "fin"
IsInf(x) == x.k = "inf"
IsNaN(x) == x.k = "nan"
IsExc(x) == x.k = "exc"
IsZero(x) == x.k = "fin" /\ x.m = 0

\* A mantissa of Precision digits and an exponent: overflow gives an infinity,
\* underflow gives zero.
Pack(sg, a, e) ==
    IF e + (Precision - 1) > MaxExp10 THEN Inf(sg)
    ELSE IF e + (Precision - 1) < MinExp10 THEN Zero
    ELSE [k |-> "fin", m |-> sg * a, e |-> e]

\* m * 10^e rounded to Precision digits (to nearest, ties away from zero).
Normalize(m, e) ==
    IF m = 0 THEN Zero
    ELSE LET a == IAbs(m)
             sg == ISign(m)
             drop == NumDigits(a) - Precision
         IN  IF drop > 0
             THEN LET q == (a + Pow10(drop) \div 2) \div Pow10(drop)
                  IN  IF q = Pow10(Precision) THEN Pack(sg, Pow10(Precision - 1), e + drop + 1)
                      ELSE Pack(sg, q, e + drop)
             ELSE Pack(sg, a * Pow10(-drop), e + drop)

\* The float nearest to the integer n, and to n * 10^e.
FromInt(n) == Normalize(n, 0)
Dec(n, e) == Normalize(n, e)

FSign(x) == IF IsNaN(x) \/ IsExc(x) THEN 0 ELSE ISign(x.m)

FNeg(x) == IF IsFin(x) \/ IsInf(x) THEN [x EXCEPT !.m = -x.m] ELSE x

FAbs(x) == IF IsFin(x) \/ IsInf(x) THEN [x EXCEPT !.m = IAbs(x.m)] ELSE x

FMul(x, y) ==
    IF IsExc(x) \/ IsExc(y) THEN Exc
    ELSE IF IsNaN(x) \/ IsNaN(y) THEN NaN
    ELSE IF IsInf(x) \/ IsInf(y)
         THEN IF IsZero(x) \/ IsZero(y) THEN NaN ELSE Inf(FSign(x) * FSign(y))
    ELSE Normalize(x.m * y.m, x.e + y.e)

FAdd(x, y) ==
    IF IsExc(x) \/ IsExc(y) THEN Exc
    ELSE IF IsNaN(x) \/ IsNaN(y) THEN NaN
    ELSE IF IsInf(x) /\ IsInf(y) THEN (IF x.m = y.m THEN x ELSE NaN)
    ELSE IF IsInf(x) THEN x
    ELSE IF IsInf(y) THEN y
    ELSE IF x.m = 0 THEN y
    ELSE IF y.m = 0 THEN x
    ELSE LET hi == IF x.e >= y.e THEN x ELSE y
             lo == IF x.e >= y.e THEN y ELSE x
             gap == hi.e - lo.e
         IN  IF gap > Precision + 1 THEN hi
             ELSE Normalize(hi.m * Pow10(gap) + lo.m, lo.e)

FSub(x, y) == FAdd(x, FNeg(y))

\* x / y; a zero divisor raises ZeroDivisionError.
FDiv(x, y) ==
    IF IsExc(x) \/ IsExc(y) THEN Exc
    ELSE IF IsZero(y) THEN Exc
    ELSE IF IsNaN(x) \/ IsNaN(y) THEN NaN
    ELSE IF IsInf(x) THEN (IF IsInf(y) THEN NaN ELSE Inf(FSign(x) * FSign(y)))
    ELSE IF IsInf(y) THEN Zero
    ELSE IF x.m = 0 THEN Zero
    ELSE LET n == IAbs(x.m) * Pow10(Precision + 1)
             d == IAbs(y.m)
         IN  Normalize(ISign(x.m) * ISign(y.m) * ((n + d \div 2) \div d),
                       x.e - y.e - (Precision + 1))

\* x ** 2 on floats; an overflowing finite result raises OverflowError.
FPow2(x) ==
    IF IsExc(x) THEN Exc
    ELSE IF IsNaN(x) THEN NaN
    ELSE IF IsInf(x) THEN Inf(1)
    ELSE LET r == Normalize(x.m * x.m, x.e + x.e)
         IN  IF IsInf(r) THEN Exc ELSE r

RECURSIVE ISqrtFrom(_, _)
ISqrtFrom(a, r) ==
    LET nxt == (r + a \div r) \div 2
    IN  IF nxt >= r THEN r ELSE ISqrtFrom(a, nxt)

\* The integer nearest to the square root of a > 0.
ISqrtNearest(a) ==
    LET r == ISqrtFrom(a, a)
    IN  IF a - r * r > r THEN r + 1 ELSE r

\* math.sqrt; a negative argument raises ValueError.
FSqrt(x) ==
    IF IsExc(x) THEN Exc
    ELSE IF IsNaN(x) THEN NaN
    ELSE IF IsInf(x) THEN (IF x.m > 0 THEN x ELSE Exc)
    ELSE IF x.m < 0 THEN Exc
    ELSE IF x.m = 0 THEN Zero
    ELSE LET odd == (x.e % 2) # 0
             m2 == IF odd THEN x.m * 10 ELSE x.m
             e2 == IF odd THEN x.e - 1 ELSE x.e
             half == Precision \div 2
         IN  Normalize(ISqrtNearest(m2 * Pow10(2 * half)), (e2 \div 2) - half)

\* -1, 0 or 1 as x < y, x = y or x > y; neither is a nan or an exception.
FCmp(x, y) ==
    IF IsInf(x) /\ IsInf(y) THEN ISign(x.m - y.m)
    ELSE FSign(FSub(x, y))

Comparable(x, y) == ~IsNaN(x) /\ ~IsNaN(y) /\ ~IsExc(x) /\ ~IsExc(y)
FLt(x, y) == Comparable(x, y) /\ FCmp(x, y) < 0
FLe(x, y) == Comparable(x, y) /\ FCmp(x, y) <= 0
FGt(x, y) == Comparable(x, y) /\ FCmp(x, y) > 0
FGe(x, y) == Comparable(x, y) /\ FCmp(x, y) >= 0

\* Python's max(x, y) and min(x, y): the first argument unless the second beats it.
FMax(x, y) == IF FGt(y, x) THEN y ELSE x
FMin(x, y) == IF FLt(y, x) THEN y ELSE x

-----------------------------------------------------------------------------
(* src/models/aci_constants.py                                             *)

LAMBDA_NWC == Dec(1, 0)
VC_COEFF == Dec(17, -2)
VS_MAX_COEFF == Dec(66, -2)
VS_HALF_COEFF == Dec(33, -2)
AV_MIN_COEFF_1 == Dec(62, -3)
AV_MIN_COEFF_2 == Dec(35, -2)
PHI_TENSION == Dec(9, -1)
PHI_COMPRESSION == Dec(65, -2)
EPSILON_T_TENSION == Dec(5, -3)
EPSILON_T_COMPRESSION == Dec(2, -3)
EPSILON_CU == Dec(3, -3)
WHITNEY_COEFF == Dec(85, -2)
MIN_RHO_COEFF_1 == Dec(25, -2)
MIN_RHO_COEFF_2 == Dec(14, -1)
T_TH_COEFF == Dec(83, -3)
T_CR_COEFF == Dec(33, -2)
CROSS_SECTION_COEFF == Dec(66, -2)
TORSION_STRESS_COEFF == Dec(17, -1)
AO_FACTOR == Dec(85, -2)
AL_MIN_COEFF == Dec(42, -2)
PHI_SHEAR == Dec(75, -2)
PHI_TORSION == Dec(75, -2)
S_MAX_NORMAL == FromInt(600)
S_MAX_HEAVY == FromInt(300)
BETA1_HIGH == Dec(85, -2)
BETA1_LOW == Dec(65, -2)
FC_BETA1_UPPER == FromInt(28)
FC_BETA1_LOWER == FromInt(55)

\* math.pi
PI == Dec(314159, -5)

\* None, where a float is expected (s_req, s_max).
None == [k |-> "none", m |-> 0, e |-> 0]

-----------------------------------------------------------------------------
(* src/models/units.py                                                     *)

cm_to_mm(val_cm) == FMul(val_cm, FromInt(10))
kNm_to_Nmm(val_kNm) == FMul(FAbs(val_kNm), Dec(1, 6))
kN_to_N(val_kN) == FMul(FAbs(val_kN), FromInt(1000))
mm2_to_cm2(val_mm2) == FDiv(val_mm2, FromInt(100))
mm_to_cm(val_mm) == FDiv(val_mm, FromInt(10))
N_to_kN(val_N) == FDiv(val_N, FromInt(1000))
Nmm_to_kNm(val_Nmm) == FDiv(val_Nmm, Dec(1, 6))

-----------------------------------------------------------------------------
(* src/models/section.py                                                   *)

NoSection == [exists |-> FALSE]

\* Beta1 of ACI 318-19 Table 22.2.2.4.3.
Beta1(fc) ==
    IF FLe(fc, FC_BETA1_UPPER) THEN BETA1_HIGH
    ELSE IF FLt(fc, FC_BETA1_LOWER)
         THEN FSub(BETA1_HIGH,
                   FDiv(FMul(Dec(5, -2), FSub(fc, FC_BETA1_UPPER)), FromInt(7)))
    ELSE BETA1_LOW

\* The three guards of BeamSection.__init__, in order; the ValueError raised, or
\* "" when the arguments are accepted.
CtorError(b, h, fc, fy, cover) ==
    IF FLe(b, Zero) \/ FLe(h, Zero) THEN "Width and height must be positive"
    ELSE IF FGe(cover, h) THEN "Cover must be less than beam height"
    ELSE IF FLe(fc, Zero) \/ FLe(fy, Zero) THEN "Material strengths must be positive"
    ELSE ""

\* BeamSection(b, h, fc, fy, cover): the object, or NoSection when __init__ raises.
BeamSection(b, h, fc, fy, cover) ==
    IF CtorError(b, h, fc, fy, cover) # "" THEN NoSection
    ELSE [exists |-> TRUE, b |-> b, h |-> h, fc |-> fc, fy |-> fy,
          cover |-> cover, d |-> FSub(h, cover), beta1 |-> Beta1(fc)]

-----------------------------------------------------------------------------
(* src/models/result_types.py, src/models/validation.py                    *)

TraceCheck(code_ref, formula_id, inputs, value, units, status, note) ==
    [code_ref |-> code_ref, formula_id |-> formula_id, inputs |-> inputs,
     value |-> value, units |-> units, status |-> status, note |-> note]

\* A faulty variant of validate_section_geometry: the checks are chained with
\* elif, so only the first violated rule is returned.
validate_first_violation(s) ==
    IF FLe(s.b, Zero) \/ FLe(s.h, Zero)
    THEN <<"Invalid section dimensions: width/height must be positive.">>
    ELSE IF FLe(s.cover, Zero) THEN <<"Invalid cover: cover must be positive.">>
    ELSE IF FLe(s.d, Zero) THEN <<"Invalid effective depth: d must be positive.">>
    ELSE IF FGe(s.cover, FDiv(FMin(s.b, s.h), FromInt(2)))
         THEN <<"Cover is too large relative to section dimensions.">>
    ELSE <<>>

\* validate_section_geometry: every violated rule, in the order checked.
validate_section_geometry(s) ==
    (IF FLe(s.b, Zero) \/ FLe(s.h, Zero)
     THEN <<"Invalid section dimensions: width/height must be positive.">>
     ELSE <<>>)
    \o (IF FLe(s.cover, Zero)
        THEN <<"Invalid cover: cover must be positive.">> ELSE <<>>)
    \o (IF FLe(s.d, Zero)
        THEN <<"Invalid effective depth: d must be positive.">> ELSE <<>>)
    \o (IF FGe(s.cover, FDiv(FMin(s.b, s.h), FromInt(2)))
        THEN <<"Cover is too large relative to section dimensions.">> ELSE <<>>)

\* f"Error: {' | '.join(errors)}" as the sequence of its parts.
RECURSIVE JoinBar(_)
JoinBar(errors) ==
    IF Len(errors) = 0 THEN <<>>
    ELSE IF Len(errors) = 1 THEN errors
    ELSE <<Head(errors), " | ">> \o JoinBar(Tail(errors))

ErrorStatus(errors) == <<"Error: ">> \o JoinBar(errors)

\* A faulty variant of normalize_load_with_policy: the magnitude is taken and no
\* trace entry tells of it.
normalize_load_silently(value, load_name, policy) ==
    IF FLt(value, Zero) /\ policy = "reject_negative"
    THEN [raised |-> TRUE, value |-> value, trace |-> <<>>]
    ELSE [raised |-> FALSE, value |-> FAbs(value), trace |-> <<>>]

\* A faulty variant of normalize_load_with_policy: the policy argument is
\* ignored and a negative value is always converted.
normalize_load_ignoring_policy(value, load_name, policy) ==
    IF FGe(value, Zero) THEN [raised |-> FALSE, value |-> value, trace |-> <<>>]
    ELSE [raised |-> FALSE, value |-> FAbs(value),
          trace |-> <<TraceCheck("Input Policy", <<load_name, "_SIGN_NORMALIZATION">>,
                                 <<<<"raw_input", value>>>>, FAbs(value),
                                 "same_as_input", "warning",
                                 <<load_name, " was negative and converted",
                                   " to magnitude by policy.">>)>>]

\* normalize_load_with_policy: the normalised value and the optional trace entry
\* (a sequence of zero or one TraceCheck); raised when the policy rejects.
normalize_load_with_policy(value, load_name, policy) ==
    IF FGe(value, Zero) THEN [raised |-> FALSE, value |-> value, trace |-> <<>>]
    ELSE IF policy = "reject_negative"
         THEN [raised |-> TRUE, value |-> value, trace |-> <<>>]
    ELSE [raised |-> FALSE, value |-> FAbs(value),
          trace |-> <<TraceCheck("Input Policy", <<load_name, "_SIGN_NORMALIZATION">>,
                                 <<<<"raw_input", value>>>>, FAbs(value),
                                 "same_as_input", "warning",
                                 <<load_name, " was negative and converted",
                                   " to magnitude by policy.">>)>>]

-----------------------------------------------------------------------------
(* src/models/flexure.py                                                   *)

\* What a call that raised leaves in place of a result.
NoResult == [status |-> <<>>, status_code |-> "none", trace |-> <<>>]
Raised == [raised |-> TRUE, res |-> NoResult]
Returned(res) == [raised |-> FALSE, res |-> res]

FlexureResult(status, status_code, trace, As_calc, As_min, As_design, rho, phi, epsilon_t, c, a) ==
    [status |-> status, status_code |-> status_code, trace |-> trace,
     As_calc |-> As_calc, As_min |-> As_min, As_design |-> As_design,
     rho |-> rho, phi |-> phi, epsilon_t |-> epsilon_t, c |-> c, a |-> a]

_compute_As_min(fc, fy, b_mm, d_mm) ==
    LET min_rho_1 == FDiv(FMul(MIN_RHO_COEFF_1, FSqrt(fc)), fy)
        min_rho_2 == FDiv(MIN_RHO_COEFF_2, fy)
    IN  FMul(FMul(FMax(min_rho_1, min_rho_2), b_mm), d_mm)

\* A faulty variant of _compute_phi: no interpolation between the two limits.
_compute_phi_flat(epsilon_t) ==
    IF FGe(epsilon_t, EPSILON_T_TENSION) THEN PHI_TENSION ELSE PHI_COMPRESSION

_compute_phi(epsilon_t) ==
    IF FGe(epsilon_t, EPSILON_T_TENSION) THEN PHI_TENSION
    ELSE IF FLe(epsilon_t, EPSILON_T_COMPRESSION) THEN PHI_COMPRESSION
    ELSE FAdd(PHI_COMPRESSION,
              FDiv(FMul(Dec(25, -2), FSub(epsilon_t, EPSILON_T_COMPRESSION)),
                   FSub(EPSILON_T_TENSION, EPSILON_T_COMPRESSION)))

\* range(10) of the phi loop.
MaxIter == 10

\* The convergence tolerance of the phi loop.
PhiTol == Dec(1, -3)

\* The dict _iterate_phi returns; solved counts the quadratics solved and raised
\* tells that an arithmetic exception left the function.
PhiDict(raised, error, As_req, a, c, epsilon_t, phi, solved) ==
    [raised |-> raised, error |-> error, As_req |-> As_req, a |-> a, c |-> c,
     epsilon_t |-> epsilon_t, phi |-> phi, solved |-> solved]

\* Lines 59-60: term_C = Mu_Nmm / phi and delta = term_B**2 - 4 * term_A * term_C;
\* q is what PhiTerms gives.
Discriminant(q, phi) ==
    FSub(FPow2(q.term_B), FMul(FMul(FromInt(4), q.term_A), FDiv(q.Mu_Nmm, phi)))

\* One pass of the for loop of _iterate_phi (lines 58-82), split where a value is
\* bound: q holds the values fixed over the loop, i is the loop index, phi and
\* the values after it are the loop variables on entry to the pass.
RECURSIVE PhiLoop(_, _, _, _, _, _, _)

\* A faulty variant of PhiConverge: the loop never stops on convergence and
\* always runs to the cap.
PhiConvergeNever(q, i, phi, As_new, a_new, c_new, eps_new, new_phi) ==
    PhiLoop(q, i + 1, new_phi, As_new, a_new, c_new, eps_new)

\* Lines 78-82: the convergence test on the new phi.
PhiConverge(q, i, phi, As_new, a_new, c_new, eps_new, new_phi) ==
    IF FLt(FAbs(FSub(new_phi, phi)), PhiTol)
    THEN PhiDict(FALSE, FALSE, As_new, a_new, c_new, eps_new, new_phi, i + 1)
    ELSE PhiLoop(q, i + 1, new_phi, As_new, a_new, c_new, eps_new)

\* Lines 70-76: a neutral axis depth that is not positive ends the loop; else the
\* net tensile strain and the phi it gives.
PhiDepth(q, i, phi, epsilon_t, As_new, a_new, c_new) ==
    IF IsExc(c_new)
    THEN PhiDict(TRUE, FALSE, As_new, a_new, c_new, epsilon_t, phi, i + 1)
    ELSE IF FLe(c_new, Zero)
    THEN PhiDict(FALSE, FALSE, As_new, a_new, c_new, Dec(1, 0), PHI_TENSION, i + 1)
    ELSE PhiConverge(q, i, phi, As_new, a_new, c_new,
                     FDiv(FMul(EPSILON_CU, FSub(q.d_mm, c_new)), c_new),
                     _compute_phi(FDiv(FMul(EPSILON_CU, FSub(q.d_mm, c_new)), c_new)))

\* Lines 67-68: the stress block depth a and the neutral axis depth c.
PhiBlock(q, i, phi, epsilon_t, As_new, a_new) ==
    PhiDepth(q, i, phi, epsilon_t, As_new, a_new, FDiv(a_new, q.beta1))

\* Lines 62-67: a negative discriminant ends the call; else the smaller root.
PhiRoot(q, i, phi, As_req, a, c, epsilon_t, delta) ==
    IF IsExc(delta) THEN PhiDict(TRUE, FALSE, As_req, a, c, epsilon_t, phi, i)
    ELSE IF FLt(delta, Zero) THEN PhiDict(FALSE, TRUE, Zero, Zero, Zero, Zero, phi, i)
    ELSE PhiBlock(q, i, phi, epsilon_t,
                  FDiv(FSub(FNeg(q.term_B), FSqrt(delta)), FMul(FromInt(2), q.term_A)),
                  FDiv(FMul(FDiv(FSub(FNeg(q.term_B), FSqrt(delta)),
                                 FMul(FromInt(2), q.term_A)), q.fy),
                       FMul(FMul(WHITNEY_COEFF, q.fc), q.b_mm)))

\* Lines 58-59: the loop head and the discriminant.
PhiLoop(q, i, phi, As_req, a, c, epsilon_t) ==
    IF i >= MaxIter THEN PhiDict(FALSE, FALSE, As_req, a, c, epsilon_t, phi, i)
    ELSE PhiRoot(q, i, phi, As_req, a, c, epsilon_t, Discriminant(q, phi))

\* Lines 52-58: the initial loop variables.
PhiStart(q) ==
    IF IsExc(q.term_A)
    THEN PhiDict(TRUE, FALSE, Zero, Zero, Zero, Dec(1, 0), PHI_TENSION, 0)
    ELSE PhiLoop(q, 0, PHI_TENSION, Zero, Zero, Zero, Dec(1, 0))

\* Lines 47-50: what the loop keeps fixed, with the quadratic's term_A and term_B.
PhiTerms(section, Mu_Nmm, b_mm, d_mm, fc, fy) ==
    [Mu_Nmm |-> Mu_Nmm, b_mm |-> b_mm, d_mm |-> d_mm, fc |-> fc, fy |-> fy,
     beta1 |-> section.beta1,
     term_A |-> FDiv(FPow2(fy), FMul(FMul(FMul(FromInt(2), WHITNEY_COEFF), fc), b_mm)),
     term_B |-> FMul(FNeg(fy), d_mm)]

_iterate_phi(section, Mu_Nmm, b_mm, d_mm, fc, fy) ==
    PhiStart(PhiTerms(section, Mu_Nmm, b_mm, d_mm, fc, fy))

\* A faulty variant of FlexureStatus: one warning band under 0.005.
FlexureStatusOneBand(epsilon_t) ==
    IF FLt(epsilon_t, EPSILON_T_TENSION)
    THEN <<"Transition Zone (epsilon_t < 0.005)", "warning">>
    ELSE <<"OK", "ok">>

\* The classification of lines 184-192: <<status, status_code>>.
FlexureStatus(epsilon_t) ==
    IF FLt(epsilon_t, Dec(4, -3))
    THEN <<"Warning: Low Ductility (epsilon_t < 0.004)", "warning">>
    ELSE IF FLt(epsilon_t, EPSILON_T_TENSION)
         THEN <<"Transition Zone (epsilon_t < 0.005)", "warning">>
    ELSE <<"OK", "ok">>

\* A faulty variant of FlexureSolved: the design steel is the computed steel,
\* without the minimum.
FlexureSolvedWithoutMinimum(trace, As_min, result, st, rho) ==
    IF IsExc(rho) THEN Raised
    ELSE Returned(FlexureResult(
             <<st[1]>>, st[2],
             trace \o <<TraceCheck("ACI 318-19 Section 21.2.2",
                                   <<"phi_strain_classification">>,
                                   <<<<"epsilon_t", result.epsilon_t>>>>,
                                   result.phi, "phi", st[2], <<>>)>>,
             mm2_to_cm2(result.As_req), mm2_to_cm2(As_min),
             mm2_to_cm2(result.As_req), rho, result.phi,
             result.epsilon_t, mm_to_cm(result.c), mm_to_cm(result.a)))

\* Lines 194-217: the result of a solved section.
FlexureSolved(trace, As_min, result, st, rho) ==
    IF IsExc(rho) THEN Raised
    ELSE Returned(FlexureResult(
             <<st[1]>>, st[2],
             trace \o <<TraceCheck("ACI 318-19 Section 21.2.2",
                                   <<"phi_strain_classification">>,
                                   <<<<"epsilon_t", result.epsilon_t>>>>,
                                   result.phi, "phi", st[2], <<>>)>>,
             mm2_to_cm2(result.As_req), mm2_to_cm2(As_min),
             mm2_to_cm2(FMax(result.As_req, As_min)), rho, result.phi,
             result.epsilon_t, mm_to_cm(result.c), mm_to_cm(result.a)))

\* Lines 153-176: the capacity failure at the phi the loop had reached.
FlexureOverloaded(trace, Mu_Nmm, As_min, phi) ==
    Returned(FlexureResult(
        <<"Error: Section Overloaded (Compression Failure)">>, "error",
        trace \o <<TraceCheck("ACI 318-19 Section 22.2",
                              <<"phiMn_quadratic_discriminant">>,
                              <<<<"Mu_Nmm", Mu_Nmm>>>>, phi, "phi", "error",
                              <<"Negative discriminant in flexure quadratic.">>)>>,
        Zero, mm2_to_cm2(As_min), Zero, Zero, phi, Zero, Zero, Zero))

\* A faulty variant of FlexureIterated: the failure reports the initial phi in
\* place of the phi at which the discriminant went negative.
FlexureIteratedInitialPhi(trace, Mu_Nmm, b_mm, d_mm, As_min, result) ==
    IF result.raised THEN Raised
    ELSE IF result.error THEN FlexureOverloaded(trace, Mu_Nmm, As_min, PHI_TENSION)
    ELSE FlexureSolved(trace, As_min, result, FlexureStatus(result.epsilon_t),
                       FDiv(result.As_req, FMul(b_mm, d_mm)))

\* Lines 152-192: the capacity failure, or the classification of the solution.
FlexureIterated(trace, Mu_Nmm, b_mm, d_mm, As_min, result) ==
    IF result.raised THEN Raised
    ELSE IF result.error THEN FlexureOverloaded(trace, Mu_Nmm, As_min, result.phi)
    ELSE FlexureSolved(trace, As_min, result, FlexureStatus(result.epsilon_t),
                       FDiv(result.As_req, FMul(b_mm, d_mm)))

\* A faulty variant of FlexureTraced: the negligible moment goes to the solver.
FlexureTracedAlwaysSolves(section, Mu_Nmm, b_mm, d_mm, As_min, trace) ==
    FlexureIterated(trace, Mu_Nmm, b_mm, d_mm, As_min,
                    _iterate_phi(section, Mu_Nmm, b_mm, d_mm, section.fc, section.fy))

\* Lines 134-150: the negligible moment, or the solver.
FlexureTraced(section, Mu_Nmm, b_mm, d_mm, As_min, trace) ==
    IF FLt(Mu_Nmm, Dec(1, -6))
    THEN Returned(FlexureResult(<<"OK (Min Steel)">>, "ok", trace, Zero,
                                mm2_to_cm2(As_min), mm2_to_cm2(As_min), Zero,
                                PHI_TENSION, Dec(1, 0), Zero, Zero))
    ELSE FlexureIterated(trace, Mu_Nmm, b_mm, d_mm, As_min,
                         _iterate_phi(section, Mu_Nmm, b_mm, d_mm, section.fc,
                                      section.fy))

\* Lines 122-132: As_min and its trace entry.
FlexureSized(section, norm, Mu_Nmm, b_mm, d_mm, As_min) ==
    IF IsExc(As_min) THEN Raised
    ELSE FlexureTraced(section, Mu_Nmm, b_mm, d_mm, As_min,
             norm.trace \o
             <<TraceCheck("ACI 318-19 Table 9.6.1.2", <<"As_min">>,
                          <<<<"fc_MPa", section.fc>>, <<"fy_MPa", section.fy>>,
                            <<"b_mm", b_mm>>, <<"d_mm", d_mm>>>>,
                          As_min, "mm2", "ok", <<>>)>>)

\* Lines 111-122: the load normalised, the unit conversions and As_min.
FlexureNormalized(section, norm) ==
    FlexureSized(section, norm, kNm_to_Nmm(norm.value), cm_to_mm(section.b),
                 cm_to_mm(section.d),
                 _compute_As_min(section.fc, section.fy, cm_to_mm(section.b),
                                 cm_to_mm(section.d)))

calculate_flexure(section, Mu) ==
    IF validate_section_geometry(section) # <<>>
    THEN Returned(FlexureResult(ErrorStatus(validate_section_geometry(section)),
                                "error", <<>>, Zero, Zero, Zero, Zero,
                                PHI_COMPRESSION, Zero, Zero, Zero))
    ELSE FlexureNormalized(section,
                           normalize_load_with_policy(Mu, "Mu", "abs_with_warning"))

-----------------------------------------------------------------------------
(* src/models/shear.py                                                     *)

ShearResult(status, status_code, trace, Vc, phi_Vc, Vs_req, s_req, s_max, Av, Av_bar_cm2) ==
    [status |-> status, status_code |-> status_code, trace |-> trace,
     Vc |-> Vc, phi_Vc |-> phi_Vc, Vs_req |-> Vs_req, s_req |-> s_req,
     s_max |-> s_max, Av |-> Av, Av_bar_cm2 |-> Av_bar_cm2]

_compute_Vc(fc, b_mm, d_mm) ==
    FMul(FMul(FMul(FMul(VC_COEFF, LAMBDA_NWC), FSqrt(fc)), b_mm), d_mm)

\* <<Av_bar, Av>>
_compute_stirrup_area(stirrup_diameter_cm, n_legs) ==
    LET d_mm == cm_to_mm(stirrup_diameter_cm)
        Av_bar == FMul(PI, FPow2(FDiv(d_mm, FromInt(2))))
    IN  <<Av_bar, FMul(FromInt(n_legs), Av_bar)>>

\* The sentinel spacing used when minimum reinforcement governs.
S_CALC_SENTINEL == FromInt(9999)

\* <<s_final, s_max_limit>>
_compute_spacing(Av, fy, d_mm, Vs_req, fc, b_mm) ==
    LET s_calc == IF FLe(Vs_req, Zero) THEN S_CALC_SENTINEL
                  ELSE FDiv(FMul(FMul(Av, fy), d_mm), Vs_req)
        s_max_limit ==
            IF FLe(Vs_req, FMul(FMul(FMul(VS_HALF_COEFF, FSqrt(fc)), b_mm), d_mm))
            THEN FMin(FDiv(d_mm, FromInt(2)), S_MAX_NORMAL)
            ELSE FMin(FDiv(d_mm, FromInt(4)), S_MAX_HEAVY)
        s_min_1 == FDiv(FMul(Av, fy), FMul(FMul(AV_MIN_COEFF_1, FSqrt(fc)), b_mm))
        s_min_2 == FDiv(FMul(Av, fy), FMul(AV_MIN_COEFF_2, b_mm))
        s_max_min_reinf == FMin(s_min_1, s_min_2)
    IN  <<FMin(FMin(s_calc, s_max_limit), s_max_min_reinf), s_max_limit>>

\* Lines 181-202: the spacing's trace entry and the designed result; sp is what
\* _compute_spacing returned.
ShearSpaced(trace, fy, d_mm, Vc, phi_Vc, area, Vs_req, sp) ==
    IF IsExc(sp[1]) THEN Raised
    ELSE Returned(ShearResult(
             <<IF FGt(Vs_req, Zero) THEN "Add Stirrups"
               ELSE "Minimum Stirrups Required">>,
             "ok",
             trace \o <<TraceCheck("ACI 318-19 Table 9.7.6.2.2", <<"stirrup_spacing">>,
                                   <<<<"Av_mm2", area[2]>>, <<"fy_MPa", fy>>,
                                     <<"d_mm", d_mm>>, <<"Vs_req_N", Vs_req>>>>,
                                   sp[1], "mm", "ok", <<>>)>>,
             N_to_kN(Vc), N_to_kN(phi_Vc), N_to_kN(FMax(Zero, Vs_req)),
             mm_to_cm(sp[1]), mm_to_cm(sp[2]), area[2], mm2_to_cm2(area[1])))

\* A faulty variant of ShearChecked: the steel's share is never held against
\* Vs_max.
ShearUnchecked(section, trace, b_mm, d_mm, Vc, phi_Vc, area, Vs_req, Vs_max) ==
    ShearSpaced(trace, section.fy, d_mm, Vc, phi_Vc, area, Vs_req,
                _compute_spacing(area[2], section.fy, d_mm, Vs_req, section.fc, b_mm))

\* Lines 154-179: the section too small for the steel's share, or the spacing;
\* trace already holds the Vs_max entry of lines 144-153.
ShearChecked(section, trace, b_mm, d_mm, Vc, phi_Vc, area, Vs_req, Vs_max) ==
    IF FGt(Vs_req, Vs_max)
    THEN Returned(ShearResult(
             <<"Error: Section Dimensions too small for Shear (Vs > Vs_max).",
               " Increase Dimensions.">>,
             "error",
             trace \o <<TraceCheck("ACI 318-19 Section 22.5", <<"Vs_req_gt_Vs_max">>,
                                   <<<<"Vs_req_N", Vs_req>>, <<"Vs_max_N", Vs_max>>>>,
                                   Vs_req, "N", "error", <<>>)>>,
             N_to_kN(Vc), N_to_kN(phi_Vc), N_to_kN(Vs_req), None, None,
             area[2], mm2_to_cm2(area[1])))
    ELSE ShearSpaced(trace, section.fy, d_mm, Vc, phi_Vc, area, Vs_req,
                     _compute_spacing(area[2], section.fy, d_mm, Vs_req, section.fc,
                                      b_mm))

\* Lines 139-153: Vs_req, Vs_max and the Vs_max trace entry.
ShearRequired(section, trace, b_mm, d_mm, Vc, phi_Vc, area, Vs_req, Vs_max) ==
    ShearChecked(section,
                 trace \o <<TraceCheck("ACI 318-19 Section 22.5", <<"Vs_max">>,
                                       <<<<"fc_MPa", section.fc>>, <<"bw_mm", b_mm>>,
                                         <<"d_mm", d_mm>>>>,
                                       Vs_max, "N", "ok", <<>>)>>,
                 b_mm, d_mm, Vc, phi_Vc, area, Vs_req, Vs_max)

\* Lines 115-143: the result without stirrups, or the steel's share;
\* no_stirrups is the test of line 115 and area is <<Av_bar, Av>>.
ShearDecided(section, trace, Vu_N, b_mm, d_mm, Vc, phi_Vc, area, no_stirrups) ==
    IF IsExc(Vc) \/ IsExc(area[2]) THEN Raised
    ELSE IF no_stirrups
    THEN Returned(ShearResult(
             <<"No Shear Reinforcement Required (Vu < 0.5 * phi * Vc)">>, "ok",
             trace \o <<TraceCheck("ACI 318-19 Section 9.6",
                                   <<"Vu_threshold_no_stirrups">>,
                                   <<<<"Vu_N", Vu_N>>, <<"phiVc_N", phi_Vc>>>>,
                                   FDiv(Vu_N, FMax(phi_Vc, Dec(1, -9))),
                                   "ratio", "ok", <<>>)>>,
             N_to_kN(Vc), N_to_kN(phi_Vc), Zero, None,
             mm_to_cm(FDiv(d_mm, FromInt(2))), area[2], mm2_to_cm2(area[1])))
    ELSE ShearRequired(section, trace, b_mm, d_mm, Vc, phi_Vc, area,
                       FSub(FDiv(Vu_N, PHI_SHEAR), Vc),
                       FMul(FMul(FMul(VS_MAX_COEFF, FSqrt(section.fc)), b_mm), d_mm))

\* A faulty variant of ShearThreshold: the threshold is phi * Vc, not half of it.
ShearThresholdWhole(section, trace, Vu_N, b_mm, d_mm, Vc, phi_Vc, area) ==
    ShearDecided(section, trace, Vu_N, b_mm, d_mm, Vc, phi_Vc, area,
                 FLe(Vu_N, phi_Vc))

\* Lines 114-115: the no-reinforcement threshold.
ShearThreshold(section, trace, Vu_N, b_mm, d_mm, Vc, phi_Vc, area) ==
    ShearDecided(section, trace, Vu_N, b_mm, d_mm, Vc, phi_Vc, area,
                 FLe(Vu_N, FMul(Dec(5, -1), phi_Vc)))

\* Lines 99-112: Vc, phi_Vc, the Vc trace entry and the stirrup area.
ShearConcrete(section, norm, Vu_N, b_mm, d_mm, n_legs, stirrup_diameter, Vc) ==
    ShearThreshold(section,
                   norm.trace \o
                   <<TraceCheck("ACI 318-19 Section 22.5", <<"Vc_simplified">>,
                                <<<<"fc_MPa", section.fc>>, <<"bw_mm", b_mm>>,
                                  <<"d_mm", d_mm>>>>,
                                Vc, "N", "ok", <<>>)>>,
                   Vu_N, b_mm, d_mm, Vc, FMul(PHI_SHEAR, Vc),
                   _compute_stirrup_area(stirrup_diameter, n_legs))

\* Lines 88-99: the load normalised, the unit conversions and Vc.
ShearNormalized(section, norm, n_legs, stirrup_diameter) ==
    ShearConcrete(section, norm, kN_to_N(norm.value), cm_to_mm(section.b),
                  cm_to_mm(section.d), n_legs, stirrup_diameter,
                  _compute_Vc(section.fc, cm_to_mm(section.b), cm_to_mm(section.d)))

calculate_shear(section, Vu, n_legs, stirrup_diameter) ==
    IF validate_section_geometry(section) # <<>>
    THEN Returned(ShearResult(ErrorStatus(validate_section_geometry(section)),
                              "error", <<>>, Zero, Zero, Zero, None, None, Zero,
                              Zero))
    ELSE ShearNormalized(section,
                         normalize_load_with_policy(Vu, "Vu", "abs_with_warning"),
                         n_legs, stirrup_diameter)

-----------------------------------------------------------------------------
(* src/models/torsion.py                                                   *)

\* check_cross_section: the message and the two stresses it formats.
CheckMsg(msg, lhs, rhs) == [msg |-> msg, lhs |-> lhs, rhs |-> rhs]

TorsionResult(status, status_code, trace, Tu, T_th, phi_T_th, T_cr, phi_T_cr, At_s_req, At_s_req_cm2_m, Al_req, check_cross_section, action) ==
    [status |-> status, status_code |-> status_code, trace |-> trace, Tu |-> Tu,
     T_th |-> T_th, phi_T_th |-> phi_T_th, T_cr |-> T_cr, phi_T_cr |-> phi_T_cr,
     At_s_req |-> At_s_req, At_s_req_cm2_m |-> At_s_req_cm2_m, Al_req |-> Al_req,
     check_cross_section |-> check_cross_section, action |-> action]

_compute_section_properties(section) ==
    LET b_mm == cm_to_mm(section.b)
        h_mm == cm_to_mm(section.h)
        cover_mm == cm_to_mm(section.cover)
        x1 == FSub(b_mm, FMul(FromInt(2), cover_mm))
        y1 == FSub(h_mm, FMul(FromInt(2), cover_mm))
        inside == FGt(x1, Zero) /\ FGt(y1, Zero)
    IN  [b_mm |-> b_mm, h_mm |-> h_mm, Acp |-> FMul(b_mm, h_mm),
         Pcp |-> FMul(FromInt(2), FAdd(b_mm, h_mm)), x1 |-> x1, y1 |-> y1,
         Aoh |-> IF inside THEN FMul(x1, y1) ELSE Zero,
         Ph |-> IF inside THEN FMul(FromInt(2), FAdd(x1, y1)) ELSE Zero]

\* [raised, adequate, msg]
_check_cross_section(Vu_N, Tu_Nmm, b_mm, d_mm, fc, Ph, Aoh, Vc) ==
    LET bw_d == FMul(b_mm, d_mm)
        lhs_v == FDiv(Vu_N, bw_d)
        lhs_t == FDiv(FMul(Tu_Nmm, Ph), FMul(TORSION_STRESS_COEFF, FPow2(Aoh)))
        lhs == FSqrt(FAdd(FPow2(lhs_v), FPow2(lhs_t)))
        rhs_max == FMul(PHI_TORSION,
                        FAdd(FDiv(Vc, bw_d), FMul(CROSS_SECTION_COEFF, FSqrt(fc))))
    IN  IF IsExc(lhs) \/ IsExc(rhs_max)
        THEN [raised |-> TRUE, adequate |-> FALSE, msg |-> CheckMsg("", None, None)]
        ELSE IF FGt(lhs, rhs_max)
        THEN [raised |-> FALSE, adequate |-> FALSE,
              msg |-> CheckMsg("Combined Shear Stress > Limit MPa", lhs, rhs_max)]
        ELSE [raised |-> FALSE, adequate |-> TRUE,
              msg |-> CheckMsg("OK (<= MPa)", lhs, rhs_max)]

_compute_transverse_reinf(Tu_Nmm, Aoh, fy) ==
    LET Tn == FDiv(Tu_Nmm, PHI_TORSION)
        Ao == FMul(AO_FACTOR, Aoh)
        cot_theta == Dec(1, 0)
    IN  FDiv(Tn, FMul(FMul(FMul(FromInt(2), Ao), fy), cot_theta))

_compute_longitudinal_reinf(At_s_req, Ph, fy, fc, Acp) ==
    LET fyt == fy
        cot_theta == Dec(1, 0)
        Al_req == FMul(FMul(FMul(At_s_req, Ph), FDiv(fyt, fy)), FPow2(cot_theta))
        term1 == FDiv(FMul(FMul(AL_MIN_COEFF, FSqrt(fc)), Acp), fy)
        Al_min == FSub(term1, FMul(FMul(At_s_req, Ph), FDiv(fyt, fy)))
    IN  FMax(Al_req, Al_min)

\* _make_default_results(Tu, trace).  `trace or []` hands the result the caller's
\* list object when that list is non-empty and a fresh empty list otherwise:
\* shared tells which, and trace is the list's content at the call.
_make_default_results(Tu, trace) ==
    [shared |-> trace # <<>>,
     res |-> TorsionResult(<<"OK">>, "ok", IF trace # <<>> THEN trace ELSE <<>>,
                           Tu, Zero, Zero, Zero, Zero, Zero, Zero, Zero,
                           CheckMsg("OK", None, None), "")]

\* The result object as the caller sees it once calculate_torsion has appended
\* to its local list: the appends show in results.trace only when the two are
\* one object.
WithTrace(dflt, res, trace) ==
    [res EXCEPT !.trace = IF dflt.shared THEN trace ELSE dflt.res.trace]

\* Lines 221-252: the two reinforcement entries and the designed result.
TorsionDesigned(dflt, res, trace, Tu_Nmm, sp, fy, At_s_req, Al_final) ==
    IF IsExc(At_s_req) \/ IsExc(Al_final) THEN Raised
    ELSE Returned(WithTrace(dflt,
             [res EXCEPT
                 !.At_s_req = At_s_req,
                 !.At_s_req_cm2_m = FMul(At_s_req, FromInt(10)),
                 !.Al_req = mm2_to_cm2(Al_final),
                 !.status = <<"Torsion Reinforcement Required">>,
                 !.status_code = "warning",
                 !.action = "Provide Closed Stirrups + Longitudinal Bars"],
             trace \o
             <<TraceCheck("ACI 318-19 Section 22.7", <<"At_over_s">>,
                          <<<<"Tu_Nmm", Tu_Nmm>>, <<"Aoh_mm2", sp.Aoh>>,
                            <<"fy_MPa", fy>>>>,
                          At_s_req, "mm2/mm", "ok", <<>>),
               TraceCheck("ACI 318-19 Eq 9.6.4.3(a)", <<"Al_min_and_required">>,
                          <<<<"At_s_mm2_per_mm", At_s_req>>, <<"Ph_mm", sp.Ph>>,
                            <<"Acp_mm2", sp.Acp>>>>,
                          Al_final, "mm2", "ok", <<>>)>>))

\* Lines 200-235: the adequacy entry and the inadequate section, or At/s and Al;
\* chk is what _check_cross_section returned.
TorsionAdequacy(section, dflt, res, trace, Tu_Nmm, Vu_N, sp, chk) ==
    IF chk.raised THEN Raised
    ELSE IF ~chk.adequate
    THEN Returned(WithTrace(dflt,
             [res EXCEPT
                 !.check_cross_section = chk.msg,
                 !.status = <<"Error: Cross-Section Too Small for Torsion+Shear!">>,
                 !.status_code = "error"],
             trace \o <<TraceCheck("ACI 318-19 22.7.7.1",
                                   <<"combined_shear_torsion_stress">>,
                                   <<<<"Vu_N", Vu_N>>, <<"Tu_Nmm", Tu_Nmm>>>>,
                                   Zero, "pass_fail", "error", <<chk.msg>>)>>))
    ELSE TorsionDesigned(dflt,
             [res EXCEPT !.check_cross_section = chk.msg],
             trace \o <<TraceCheck("ACI 318-19 22.7.7.1",
                                   <<"combined_shear_torsion_stress">>,
                                   <<<<"Vu_N", Vu_N>>, <<"Tu_Nmm", Tu_Nmm>>>>,
                                   Dec(1, 0), "pass_fail", "ok", <<chk.msg>>)>>,
             Tu_Nmm, sp, section.fy,
             _compute_transverse_reinf(Tu_Nmm, sp.Aoh, section.fy),
             _compute_longitudinal_reinf(
                 _compute_transverse_reinf(Tu_Nmm, sp.Aoh, section.fy), sp.Ph,
                 section.fy, section.fc, sp.Acp))

\* Lines 194-199: d, Vc and the adequacy check.
TorsionSection(section, dflt, res, trace, Tu_Nmm, Vu_N, sp, d_mm) ==
    TorsionAdequacy(section, dflt, res, trace, Tu_Nmm, Vu_N, sp,
        _check_cross_section(Vu_N, Tu_Nmm, sp.b_mm, d_mm, section.fc, sp.Ph, sp.Aoh,
            FMul(FMul(FMul(FMul(VC_COEFF, LAMBDA_NWC), FSqrt(section.fc)), sp.b_mm),
                 d_mm)))

\* Lines 170-194: the defaults filled with the thresholds, the T_th entry and
\* the negligible torsion; trace is the list before the T_th entry.
TorsionThreshold(section, dflt, trace, Tu_Nmm, Vu_N, sp, T_th, T_cr) ==
    IF FLt(Tu_Nmm, FMul(PHI_TORSION, T_th))
    THEN Returned(WithTrace(dflt,
             [dflt.res EXCEPT
                 !.T_th = Nmm_to_kNm(T_th),
                 !.phi_T_th = Nmm_to_kNm(FMul(PHI_TORSION, T_th)),
                 !.T_cr = Nmm_to_kNm(T_cr),
                 !.phi_T_cr = Nmm_to_kNm(FMul(PHI_TORSION, T_cr)),
                 !.status = <<"Torsion Neglectable (Tu < phi * T_th)">>,
                 !.status_code = "ok",
                 !.action = "No Torsion Design Needed"],
             trace \o <<TraceCheck("ACI 318-19 Section 22.7", <<"T_th">>,
                                   <<<<"fc_MPa", section.fc>>, <<"Acp_mm2", sp.Acp>>,
                                     <<"Pcp_mm", sp.Pcp>>>>,
                                   T_th, "Nmm", "ok", <<>>)>>))
    ELSE TorsionSection(section, dflt,
             [dflt.res EXCEPT
                 !.T_th = Nmm_to_kNm(T_th),
                 !.phi_T_th = Nmm_to_kNm(FMul(PHI_TORSION, T_th)),
                 !.T_cr = Nmm_to_kNm(T_cr),
                 !.phi_T_cr = Nmm_to_kNm(FMul(PHI_TORSION, T_cr))],
             trace \o <<TraceCheck("ACI 318-19 Section 22.7", <<"T_th">>,
                                   <<<<"fc_MPa", section.fc>>, <<"Acp_mm2", sp.Acp>>,
                                     <<"Pcp_mm", sp.Pcp>>>>,
                                   T_th, "Nmm", "ok", <<>>)>>,
             Tu_Nmm, Vu_N, sp, cm_to_mm(section.d))

\* Lines 166-170: the threshold and cracking torsion and the default results.
TorsionFactor(section, Tu_norm, trace, Tu_Nmm, Vu_N, sp, torsion_factor) ==
    IF IsExc(torsion_factor) THEN Raised
    ELSE TorsionThreshold(section, _make_default_results(Tu_norm, trace), trace,
                          Tu_Nmm, Vu_N, sp, FMul(T_TH_COEFF, torsion_factor),
                          FMul(T_CR_COEFF, torsion_factor))

\* Lines 148-163: the section with no room inside the cover.
TorsionNoCore(dflt, trace, sp) ==
    Returned(WithTrace(dflt,
        [dflt.res EXCEPT
            !.status = <<"Error: Section too small for defined cover to calculate Aoh.">>,
            !.status_code = "error",
            !.check_cross_section = CheckMsg("N/A", None, None),
            !.action = "Increase section or reduce cover"],
        trace \o <<TraceCheck("ACI 318-19 Section 22.7", <<"Aoh_validity">>,
                              <<<<"x1_mm", sp.x1>>, <<"y1_mm", sp.y1>>>>,
                              Zero, "mm2", "error", <<>>)>>))

\* Lines 146-166: sp is what _compute_section_properties returned.
TorsionProperties(section, Tu_norm, trace, Tu_Nmm, Vu_N, sp) ==
    IF FLe(sp.x1, Zero) \/ FLe(sp.y1, Zero)
    THEN TorsionNoCore(_make_default_results(Tu_norm, trace), trace, sp)
    ELSE TorsionFactor(section, Tu_norm, trace, Tu_Nmm, Vu_N, sp,
                       FMul(FMul(LAMBDA_NWC, FSqrt(section.fc)),
                            FDiv(FPow2(sp.Acp), sp.Pcp)))

\* Lines 130-144: the two loads normalised, their entries and the conversions.
\* A faulty variant of TorsionNormalized: the entry of Vu goes before that of Tu.
TorsionNormalizedShearFirst(section, tu_norm, vu_norm) ==
    TorsionProperties(section, tu_norm.value, vu_norm.trace \o tu_norm.trace,
                      kNm_to_Nmm(tu_norm.value), kN_to_N(vu_norm.value),
                      _compute_section_properties(section))

TorsionNormalized(section, tu_norm, vu_norm) ==
    TorsionProperties(section, tu_norm.value, tu_norm.trace \o vu_norm.trace,
                      kNm_to_Nmm(tu_norm.value), kN_to_N(vu_norm.value),
                      _compute_section_properties(section))

calculate_torsion(section, Tu, Vu) ==
    IF validate_section_geometry(section) # <<>>
    THEN Returned(TorsionResult(ErrorStatus(validate_section_geometry(section)),
                                "error", <<>>, Tu, Zero, Zero, Zero, Zero, Zero, Zero,
                                Zero, CheckMsg("N/A", None, None), ""))
    ELSE TorsionNormalized(section,
                           normalize_load_with_policy(Tu, "Tu", "abs_with_warning"),
                           normalize_load_with_policy(Vu, "Vu", "abs_with_warning"))

-----------------------------------------------------------------------------
(* src/models/torsion_distribution.py                                      *)

\* round(x) of a finite float x: the nearest integer, a tie going to the even
\* one.  The quotients rounded here are at most half a bar count.
PyRound(x) ==
    IF x.m = 0 THEN 0
    ELSE IF x.e >= 0 THEN x.m * Pow10(x.e)
    ELSE IF -x.e > Precision THEN 0
    ELSE LET a == IAbs(x.m)
             q == a \div Pow10(-x.e)
             r == a % Pow10(-x.e)
             half == Pow10(-x.e) \div 2
         IN  ISign(x.m) * (IF r > half \/ (r = half /\ q % 2 = 1) THEN q + 1 ELSE q)

\* A faulty variant of DistributionBars: the odd leftover bar goes to the top
\* face.
DistributionBarsOddToTop(al_total, n_bars, n_face, al_per_bar) ==
    LET few == n_bars - 2 * n_face < 0
        n_sides == IF few THEN 0 ELSE n_bars - 2 * n_face
        odd == n_sides % 2 # 0
        n_bottom == IF few THEN n_bars \div 2 ELSE n_face
        n_top == (IF few THEN n_bars - n_bars \div 2 ELSE n_face) + (IF odd THEN 1 ELSE 0)
        n_side_each == (IF odd THEN n_sides - 1 ELSE n_sides) \div 2
    IN  Returned([al_total |-> al_total, n_bars |-> n_bars,
                  al_per_bar |-> al_per_bar, n_bottom |-> n_bottom,
                  n_top |-> n_top, n_side_each |-> n_side_each,
                  al_bottom |-> FMul(FromInt(n_bottom), al_per_bar),
                  al_top |-> FMul(FromInt(n_top), al_per_bar),
                  al_side_each |-> FMul(FromInt(n_side_each), al_per_bar)])

\* The bars of each face and their areas, once n_face bars are wanted on the
\* bottom and on the top face.
DistributionBars(al_total, n_bars, n_face, al_per_bar) ==
    LET few == n_bars - 2 * n_face < 0
        n_sides == IF few THEN 0 ELSE n_bars - 2 * n_face
        odd == n_sides % 2 # 0
        n_bottom == (IF few THEN n_bars \div 2 ELSE n_face) + (IF odd THEN 1 ELSE 0)
        n_top == IF few THEN n_bars - n_bars \div 2 ELSE n_face
        n_side_each == (IF odd THEN n_sides - 1 ELSE n_sides) \div 2
    IN  Returned([al_total |-> al_total, n_bars |-> n_bars,
                  al_per_bar |-> al_per_bar, n_bottom |-> n_bottom,
                  n_top |-> n_top, n_side_each |-> n_side_each,
                  al_bottom |-> FMul(FromInt(n_bottom), al_per_bar),
                  al_top |-> FMul(FromInt(n_top), al_per_bar),
                  al_side_each |-> FMul(FromInt(n_side_each), al_per_bar)])

\* distribute_torsion_longitudinal_reinf: the TorsionLongitudinalDistribution
\* returned; round() of a nan raises ValueError, of an infinity OverflowError.
distribute_torsion_longitudinal_reinf(al_total, b_cm, h_cm, cover_cm, n_bars_arg) ==
    IF FLe(al_total, Zero)
    THEN Returned([al_total |-> Zero, n_bars |-> n_bars_arg, al_per_bar |-> Zero,
                   n_bottom |-> 0, n_top |-> 0, n_side_each |-> 0,
                   al_bottom |-> Zero, al_top |-> Zero, al_side_each |-> Zero])
    ELSE LET n_bars == IF n_bars_arg > 4 THEN n_bars_arg ELSE 4
             b_inner == FMax(FSub(b_cm, FMul(FromInt(2), cover_cm)), Zero)
             h_inner == FMax(FSub(h_cm, FMul(FromInt(2), cover_cm)), Zero)
             ph == FMax(FMul(FromInt(2), FAdd(b_inner, h_inner)), Dec(1, -9))
             share == FDiv(FMul(FromInt(n_bars), b_inner), ph)
         IN  IF ~IsFin(share) THEN Raised
             ELSE DistributionBars(al_total, n_bars,
                                   IF PyRound(share) > 2 THEN PyRound(share) ELSE 2,
                                   FDiv(al_total, FromInt(n_bars)))

-----------------------------------------------------------------------------
(* src/models/flexure_checklist.py                                          *)

\* A faulty variant of _criterion_from_result: As_design is compared with
\* As_min itself, without the 1e-9 allowance.
_criterion_without_tolerance(res) ==
    IF res.status_code = "error" THEN <<"Sección sobrecargada">>
    ELSE IF FLe(res.As_design, res.As_min) THEN <<"Gobierna acero mínimo">>
    ELSE <<"Gobierna demanda por momento">>

_criterion_from_result(res) ==
    IF res.status_code = "error" THEN <<"Sección sobrecargada">>
    ELSE IF FLe(res.As_design, FAdd(res.As_min, Dec(1, -9)))
         THEN <<"Gobierna acero mínimo">>
    ELSE <<"Gobierna demanda por momento">>

\* build_flexure_checklist: the rows of the checklist, without the display
\* text "Valor"; a text is the sequence of its parts.
build_flexure_checklist(face_label, res) ==
    <<[Cara |-> face_label, Check |-> "Acero mínimo",
       Code_Ref |-> "ACI 318-19 Table 9.6.1.2", Formula |-> "As_min",
       Estado |-> IF FGe(FAdd(res.As_design, Dec(1, -9)), res.As_min)
                  THEN "cumple" ELSE "no cumple",
       Comentario |-> _criterion_from_result(res)],
      [Cara |-> face_label, Check |-> "Ductilidad y factor phi",
       Code_Ref |-> "ACI 318-19 Section 21.2.2",
       Formula |-> "phi_strain_classification",
       Estado |-> IF res.status_code = "error" THEN "no cumple"
                  ELSE IF FLt(res.epsilon_t, Dec(4, -3)) THEN "advertencia"
                  ELSE IF FLt(res.epsilon_t, Dec(5, -3)) THEN "advertencia"
                  ELSE "cumple",
       Comentario |-> res.status]>>
    \o (IF res.status_code = "error"
        THEN <<[Cara |-> face_label, Check |-> "Capacidad de sección",
                Code_Ref |-> "ACI 318-19 Section 22.2",
                Formula |-> "phiMn_quadratic_discriminant",
                Estado |-> "no cumple",
                Comentario |-> <<"Sección sobrecargada para el momento aplicado.">>]>>
        ELSE <<>>)

-----------------------------------------------------------------------------
(* The inputs the model draws from                                         *)

\* Number of steps of the load grids.
MaxLoadSteps == 5

\* Constructor arguments <<b, h, fc, fy, cover>> (cm, MPa): every geometry with
\* the reference materials, and every material pair with the reference geometry.
CtorArgs ==
    {<<b, h, FromInt(28), FromInt(420), cover>> :
        b \in {FromInt(-10), FromInt(10), FromInt(30)},
        h \in {Zero, FromInt(15), FromInt(50), FromInt(150)},
        cover \in {FromInt(-3), Zero, FromInt(4), FromInt(8), FromInt(60)}}
    \cup {<<FromInt(30), FromInt(50), fc, fy, FromInt(4)>> :
            fc \in {Zero, FromInt(28), FromInt(40), FromInt(60)},
            fy \in {FromInt(-420), FromInt(280), FromInt(420)}}

\* Moments (kN m): a grid, a moment below the 1e-6 N mm cut, one small enough to
\* be lost in the quadratic, one in the transition zone, an overload, a huge one.
MuLoads ==
    {FromInt(100 * k) : k \in -1..MaxLoadSteps}
    \cup {Dec(1, -13), Dec(1, -3), FromInt(367), FromInt(1000), Dec(1, 160)}

\* Shears (kN), stirrup leg counts and stirrup diameters (cm).
VuLoads ==
    {FromInt(100 * k) : k \in -1..MaxLoadSteps - 1}
    \cup {FromInt(5), FromInt(60), FromInt(137), FromInt(1000), Dec(1, 160)}
LegCounts == {0, 2}
StirrupDiametersCm == {Zero, Dec(95, -2)}

\* Torsions (kN m) and the shears (kN) that go with them.
TuLoads ==
    {FromInt(10 * k) : k \in -1..MaxLoadSteps}
    \cup {FromInt(1), Dec(464, -2), FromInt(100), Dec(1, 160)}
VuTorsionLoads == {FromInt(-50), FromInt(10), FromInt(50), FromInt(500), Dec(1, 160)}

\* sys.float_info.max, the largest finite float.
MaxFloat == [k |-> "fin", m |-> Pow10(Precision) - 1, e |-> MaxExp10 - (Precision - 1)]

\* Arguments <<al_total, b_cm, h_cm, cover_cm, n_bars>> of
\* distribute_torsion_longitudinal_reinf: areas (cm2) that are negative, zero,
\* ordinary and the smallest normal float; widths, heights and covers (cm) up
\* to the largest float; bar counts under and over the minimum of four.
DistributionArgs ==
    {FromInt(-1), Zero, FromInt(5), FromInt(6), Dec(147, -1), Dec(1, MinExp10)}
    \X {FromInt(30), FromInt(100), MaxFloat}
    \X {FromInt(50), MaxFloat}
    \X {FromInt(4), FromInt(30)}
    \X {-1, 3, 4, 5, 6, 7, 8, 13}

\* Section-like objects <<b, h, cover, d>> (cm) handed to
\* validate_section_geometry: attributes of a BeamSection are assignable, so d
\* need not be h - cover.
GeometryObjects ==
    {<<b, h, cover, d>> :
        b \in {FromInt(-10), Zero, FromInt(30)},
        h \in {Zero, FromInt(50)},
        cover \in {FromInt(-3), Zero, FromInt(4), FromInt(15), FromInt(60)},
        d \in {FromInt(-10), Zero, FromInt(46)}}

\* Loads and policies handed to normalize_load_with_policy.
RawLoads ==
    {FromInt(-100), Dec(-1, -3), Zero, Dec(1, -3), FromInt(5), FromInt(100),
     FNeg(MaxFloat), MaxFloat, Dec(-1, 160)}
\* Arguments <<b, h, fc, fy, cover, Mu>> of the flexure designs handed to
\* build_flexure_checklist: the section of the tests with no moment, a moderate
\* one, one in the transition zone, one of low ductility and an overload; a
\* section without cover; and a section of 10 micrometres, where the areas are
\* of the order of the 1e-9 cm2 allowance.
ChecklistArgs ==
    {<<FromInt(30), FromInt(50), FromInt(28), FromInt(420), FromInt(4), Mu>> :
        Mu \in {Zero, FromInt(150), FromInt(367), FromInt(400), FromInt(1000)}}
    \cup {<<FromInt(30), FromInt(50), FromInt(28), FromInt(420), Zero, FromInt(100)>>}
    \cup {<<Dec(1, -3), Dec(1, -3), FromInt(28), FromInt(420), Dec(2, -4), Mu>> :
            Mu \in {Dec(1, -12), Dec(12, -13)}}

-----------------------------------------------------------------------------
(* The program as a state machine: a run of app.py builds the Section, a    *)
(* tab calls an engine on it and shows what the engine returned.            *)

VARIABLES
    section,    \* the Section of the current run, NoSection when none exists
    ctor,       \* the last BeamSection(...) call: its arguments and whether it raised
    call,       \* the engine call whose result is held: its arguments and outcome
    helper,     \* the direct call of a helper function whose result is held
    reports,    \* the build_design_report calls made so far, oldest first
    session,    \* the Streamlit session state the design inputs are kept in
    threads,    \* the engine calls in progress, one per concurrent caller
    heap        \* the list objects allocated so far, by identity

\* What the runs of app.py on one Section leave alone.
rest == <<reports, session, threads, heap>>

vars == <<section, ctor, call, helper, rest>>

(* src/models/reporting.py: the report bundle and its exported payload.     *)
(* What a report depends on is its arguments and, were it kept, state.      *)

\* to_dict of FlexureResult, ShearResult and TorsionResult: the mapping view of
\* a result, each TraceCheck of the trace as its __dict__.
FlexureToDict(r) ==
    [As_calc |-> r.As_calc, As_min |-> r.As_min, As_design |-> r.As_design,
     rho |-> r.rho, phi |-> r.phi, epsilon_t |-> r.epsilon_t, status |-> r.status,
     status_code |-> r.status_code, c |-> r.c, a |-> r.a, trace |-> r.trace]

ShearToDict(r) ==
    [Vc |-> r.Vc, phi_Vc |-> r.phi_Vc, Vs_req |-> r.Vs_req, s_req |-> r.s_req,
     s_max |-> r.s_max, status |-> r.status, status_code |-> r.status_code,
     Av |-> r.Av, Av_bar_cm2 |-> r.Av_bar_cm2, trace |-> r.trace]

TorsionToDict(r) ==
    [Tu |-> r.Tu, T_th |-> r.T_th, phi_T_th |-> r.phi_T_th, T_cr |-> r.T_cr,
     phi_T_cr |-> r.phi_T_cr, status |-> r.status, status_code |-> r.status_code,
     At_s_req |-> r.At_s_req, At_s_req_cm2_m |-> r.At_s_req_cm2_m,
     Al_req |-> r.Al_req, check_cross_section |-> r.check_cross_section,
     action |-> r.action, trace |-> r.trace]

\* ReportBundle.export_payload.
export_payload(bundle) ==
    [flexure_pos |-> FlexureToDict(bundle.flexure_pos),
     flexure_neg |-> FlexureToDict(bundle.flexure_neg),
     shear |-> ShearToDict(bundle.shear_res),
     torsion |-> TorsionToDict(bundle.torsion_res),
     torsion_distribution |-> bundle.torsion_dist,
     warnings |-> bundle.warnings,
     governing_criteria |-> bundle.governing_criteria]

\* The end of build_design_report: the warnings, the governing criteria and the
\* ReportBundle, or the exception of the distribution.
ReportBundle(res_flex_pos, res_flex_neg, res_shear, res_tors, dist) ==
    IF dist.raised THEN [raised |-> TRUE]
    ELSE LET Warning(status_code, status) ==
                 IF status_code \in {"warning", "error"} THEN <<status>> ELSE <<>>
         IN  [raised |-> FALSE,
              bundle |->
                [flexure_pos |-> res_flex_pos,
                 flexure_neg |-> res_flex_neg,
                 shear_res |-> res_shear,
                 torsion_res |-> res_tors,
                 torsion_dist |-> dist.res,
                 warnings |->
                     Warning(res_flex_pos.status_code, res_flex_pos.status)
                     \o Warning(res_flex_neg.status_code, res_flex_neg.status)
                     \o Warning(res_shear.status_code, res_shear.status)
                     \o Warning(res_tors.status_code, res_tors.status),
                 governing_criteria |->
                     <<[mecanismo |-> "Flexión (+)",
                        criterio_aci |-> "ACI 318-19 Sec. 22.2 / Tabla 9.6.1.2",
                        estado |-> res_flex_pos.status],
                       [mecanismo |-> "Flexión (-)",
                        criterio_aci |-> "ACI 318-19 Sec. 22.2 / Tabla 9.6.1.2",
                        estado |-> res_flex_neg.status],
                       [mecanismo |-> "Cortante",
                        criterio_aci |-> "ACI 318-19 Sec. 22.5 / Tabla 9.7.6.2.2",
                        estado |-> res_shear.status],
                       [mecanismo |-> "Torsión",
                        criterio_aci |-> "ACI 318-19 Sec. 22.7 / Eq. 9.6.4.3(a)",
                        estado |-> res_tors.status]>>]]

\* A faulty variant of ReportEngines: the transverse steel per metre is
\* distributed in place of Al_req.
ReportEnginesDistributingTransverse(sec, design_inputs, res_flex_pos, res_flex_neg, res_shear, res_tors) ==
    IF res_flex_pos.raised \/ res_flex_neg.raised \/ res_shear.raised \/ res_tors.raised
    THEN [raised |-> TRUE]
    ELSE ReportBundle(res_flex_pos.res, res_flex_neg.res, res_shear.res, res_tors.res,
             distribute_torsion_longitudinal_reinf(
                 res_tors.res.At_s_req_cm2_m, sec.b, sec.h, sec.cover,
                 design_inputs.n_bars_torsion))

\* The middle of build_design_report, once the four engines have returned or
\* raised: an exception of an engine goes through, and Al_req is distributed.
ReportEngines(sec, design_inputs, res_flex_pos, res_flex_neg, res_shear, res_tors) ==
    IF res_flex_pos.raised \/ res_flex_neg.raised \/ res_shear.raised \/ res_tors.raised
    THEN [raised |-> TRUE]
    ELSE ReportBundle(res_flex_pos.res, res_flex_neg.res, res_shear.res, res_tors.res,
             distribute_torsion_longitudinal_reinf(
                 res_tors.res.Al_req, sec.b, sec.h, sec.cover,
                 design_inputs.n_bars_torsion))

\* build_design_report: the stirrup diameter is 0.95 cm for a bar whose name
\* starts with "#3" and 1.27 cm otherwise.
build_design_report(sec, design_inputs) ==
    ReportEngines(sec, design_inputs,
        calculate_flexure(sec, design_inputs.mu_pos),
        calculate_flexure(sec, design_inputs.mu_neg),
        calculate_shear(sec, design_inputs.vu, design_inputs.n_legs,
                        IF design_inputs.stirrup_bar # <<>>
                           /\ Head(design_inputs.stirrup_bar) = "#3"
                        THEN Dec(95, -2) ELSE Dec(127, -2)),
        calculate_torsion(sec, design_inputs.tu, design_inputs.vu_torsion))

\* A faulty variant of ReportExport: the warnings list is one list kept between
\* calls, so a report starts from the warnings of the report before it.
ReportExportKeepingWarnings(r) ==
    IF r.raised THEN r
    ELSE [raised |-> FALSE,
          bundle |-> r.bundle,
          payload |-> [export_payload(r.bundle) EXCEPT !.warnings =
                          (IF reports = <<>> \/ reports[Len(reports)].out.raised
                           THEN <<>>
                           ELSE reports[Len(reports)].out.payload.warnings) \o @]]

\* report_tab.py: the bundle build_design_report returned and the payload it
\* exports, or the exception raised.
ReportExport(r) ==
    IF r.raised THEN r
    ELSE [raised |-> FALSE, bundle |-> r.bundle, payload |-> export_payload(r.bundle)]

\* DesignInputs handed to build_design_report: the defaults, the inputs of the
\* integration test, an overloaded beam, loads with negative signs and a
\* torsion past the range of ** 2.
ReportInputs ==
    {[mu_pos |-> FromInt(100), mu_neg |-> Zero, vu |-> FromInt(50),
      tu |-> FromInt(15), vu_torsion |-> FromInt(50), n_legs |-> 2,
      stirrup_bar |-> <<"#3", " (3/8\")">>, n_bars_torsion |-> 6],
     [mu_pos |-> FromInt(100), mu_neg |-> FromInt(20), vu |-> FromInt(80),
      tu |-> FromInt(20), vu_torsion |-> FromInt(80), n_legs |-> 2,
      stirrup_bar |-> <<"#3", " (3/8\")">>, n_bars_torsion |-> 6],
     [mu_pos |-> FromInt(1000), mu_neg |-> FromInt(367), vu |-> FromInt(1000),
      tu |-> FromInt(100), vu_torsion |-> FromInt(500), n_legs |-> 2,
      stirrup_bar |-> <<"#4", " (1/2\")">>, n_bars_torsion |-> 8],
     [mu_pos |-> FromInt(200), mu_neg |-> FromInt(-100), vu |-> FromInt(-300),
      tu |-> FromInt(-20), vu_torsion |-> FromInt(50), n_legs |-> 0,
      stirrup_bar |-> <<"#4", " (1/2\")">>, n_bars_torsion |-> 7],
     [mu_pos |-> FromInt(100), mu_neg |-> Zero, vu |-> FromInt(50),
      tu |-> Dec(1, 160), vu_torsion |-> FromInt(50), n_legs |-> 2,
      stirrup_bar |-> <<"#3", " (3/8\")">>, n_bars_torsion |-> 6]}

\* Number of reports built one after the other on a Section.
MaxReports == 3

-----------------------------------------------------------------------------
(* src/ui/design_state.py                                                   *)

\* The session state is a dict: <<>> is the empty dict, and the values stored
\* under "design_inputs" carry their Python type, [t |-> "float" | "int" | "str",
\* v |-> value].  `session` is the list of the calls made on one session state,
\* each with the dict it left and what it returned.
SessionState == IF session = <<>> THEN <<>> ELSE session[Len(session)].state

init_design_state(session_state) ==
    IF "design_inputs" \in DOMAIN session_state THEN session_state
    ELSE [design_inputs |->
            [mu_pos |-> [t |-> "float", v |-> FromInt(100)],
             mu_neg |-> [t |-> "float", v |-> Zero],
             vu |-> [t |-> "float", v |-> FromInt(50)],
             tu |-> [t |-> "float", v |-> FromInt(15)],
             vu_torsion |-> [t |-> "float", v |-> FromInt(50)],
             n_legs |-> [t |-> "int", v |-> 2],
             stirrup_bar |-> [t |-> "str", v |-> <<"#3", " (3/8\")">>],
             n_bars_torsion |-> [t |-> "int", v |-> 6]]]

\* A faulty variant of update_design_inputs: the stored dict is replaced by the
\* defaults updated with kwargs, so earlier updates are forgotten.
update_replacing_inputs(session_state, kwargs) ==
    LET data == init_design_state(<<>>).design_inputs
    IN  [design_inputs |->
            [k \in DOMAIN data \cup DOMAIN kwargs |->
                IF k \in DOMAIN kwargs THEN kwargs[k] ELSE data[k]]]

\* update_design_inputs: dict.update(kwargs) on the stored dict.
update_design_inputs(session_state, kwargs) ==
    LET data == init_design_state(session_state).design_inputs
    IN  [design_inputs |->
            [k \in DOMAIN data \cup DOMAIN kwargs |->
                IF k \in DOMAIN kwargs THEN kwargs[k] ELSE data[k]]]

\* get_design_snapshot: the DesignInputs built from the stored dict through
\* float(), int() and str().
get_design_snapshot(session_state) ==
    LET data == init_design_state(session_state).design_inputs
        get(key, default) == IF key \in DOMAIN data THEN data[key] ELSE default
        float(x) == CASE x.t = "float" -> x.v
                      [] x.t = "int" -> FromInt(x.v)
        int(x) == CASE x.t = "int" -> x.v
                    [] x.t = "float" ->
                         IF x.v.e >= 0 THEN x.v.m * Pow10(x.v.e)
                         ELSE ISign(x.v.m) * (IAbs(x.v.m) \div Pow10(-x.v.e))
        str(x) == CASE x.t = "str" -> x.v
    IN  [mu_pos |-> float(get("mu_pos", [t |-> "float", v |-> FromInt(100)])),
         mu_neg |-> float(get("mu_neg", [t |-> "float", v |-> Zero])),
         vu |-> float(get("vu", [t |-> "float", v |-> FromInt(50)])),
         tu |-> float(get("tu", [t |-> "float", v |-> FromInt(15)])),
         vu_torsion |-> float(get("vu_torsion",
                                  [t |-> "float",
                                   v |-> float(get("vu", [t |-> "float",
                                                          v |-> FromInt(50)]))])),
         n_legs |-> int(get("n_legs", [t |-> "int", v |-> 2])),
         stirrup_bar |-> str(get("stirrup_bar",
                                 [t |-> "str", v |-> <<"#3", " (3/8\")">>])),
         n_bars_torsion |-> int(get("n_bars_torsion", [t |-> "int", v |-> 6]))]

\* Keyword arguments of update_design_inputs: those of the test, of the flexure
\* tab (one moment typed as an int), of the shear tab and of the torsion tab.
UpdateKwargs ==
    {[mu_pos |-> [t |-> "float", v |-> FromInt(150)],
      vu |-> [t |-> "float", v |-> FromInt(95)],
      n_legs |-> [t |-> "int", v |-> 4]],
     [mu_pos |-> [t |-> "int", v |-> 200],
      mu_neg |-> [t |-> "float", v |-> FromInt(-20)]],
     [vu |-> [t |-> "float", v |-> FromInt(120)],
      n_legs |-> [t |-> "int", v |-> 2],
      stirrup_bar |-> [t |-> "str", v |-> <<"#4", " (1/2\")">>]],
     [tu |-> [t |-> "float", v |-> FromInt(20)],
      vu_torsion |-> [t |-> "float", v |-> FromInt(80)],
      n_bars_torsion |-> [t |-> "int", v |-> 8]]}

\* Number of calls made one after the other on a session state.
MaxSessionCalls == 4

NoCall == [op |-> "none", load |-> Zero, vu |-> Zero, n_legs |-> 0,
           stirrup_diameter |-> Zero, out |-> Returned(NoResult)]

NoHelper == [op |-> "none"]

\* Nothing is in progress: no result is held, no report is built, no session
\* state exists and no caller is inside an engine.
Idle ==
    /\ call.op = "none"
    /\ helper.op = "none"
    /\ rest = << <<>>, <<>>, <<>>, <<>> >>

Init ==
    /\ section = NoSection
    /\ ctor = [called |-> FALSE, args |-> <<Zero, Zero, Zero, Zero, Zero>>,
               raised |-> FALSE]
    /\ call = NoCall
    /\ helper = NoHelper
    /\ reports = <<>>
    /\ session = <<>>
    /\ threads = <<>>
    /\ heap = <<>>

\* section = BeamSection(b, h, fc, fy, cover) of app.py: on ValueError the run
\* stops and no Section exists.
NewSection(args) ==
    /\ Idle
    /\ section' = BeamSection(args[1], args[2], args[3], args[4], args[5])
    /\ ctor' = [called |-> TRUE, args |-> args,
                raised |-> CtorError(args[1], args[2], args[3], args[4], args[5]) # ""]
    /\ call' = NoCall
    /\ UNCHANGED <<helper, rest>>

Flexure(Mu) ==
    /\ section.exists
    /\ Idle
    /\ call' = [op |-> "flexure", load |-> Mu, vu |-> Zero, n_legs |-> 0,
                stirrup_diameter |-> Zero, out |-> calculate_flexure(section, Mu)]
    /\ UNCHANGED <<section, ctor, helper, rest>>

Shear(Vu, n_legs, stirrup_diameter) ==
    /\ section.exists
    /\ Idle
    /\ call' = [op |-> "shear", load |-> Vu, vu |-> Zero, n_legs |-> n_legs,
                stirrup_diameter |-> stirrup_diameter,
                out |-> calculate_shear(section, Vu, n_legs, stirrup_diameter)]
    /\ UNCHANGED <<section, ctor, helper, rest>>

Torsion(Tu, Vu) ==
    /\ section.exists
    /\ Idle
    /\ call' = [op |-> "torsion", load |-> Tu, vu |-> Vu, n_legs |-> 0,
                stirrup_diameter |-> Zero, out |-> calculate_torsion(section, Tu, Vu)]
    /\ UNCHANGED <<section, ctor, helper, rest>>

\* The tab has shown the result: the engines keep nothing between calls.
Render ==
    /\ call.op # "none"
    /\ call' = NoCall
    /\ UNCHANGED <<section, ctor, helper, rest>>

\* A helper function called on its own, as the tests call it, before any
\* Section is built.
Distribute(args) ==
    /\ Idle /\ ~ctor.called
    /\ helper' = [op |-> "distribute", args |-> args,
                  out |-> distribute_torsion_longitudinal_reinf(
                              args[1], args[2], args[3], args[4], args[5])]
    /\ UNCHANGED <<section, ctor, call, rest>>

Validate(obj) ==
    /\ Idle /\ ~ctor.called
    /\ helper' = [op |-> "validate", obj |-> obj,
                  out |-> validate_section_geometry(
                              [b |-> obj[1], h |-> obj[2], cover |-> obj[3],
                               d |-> obj[4]])]
    /\ UNCHANGED <<section, ctor, call, rest>>

NormalizeLoad(value, policy) ==
    /\ Idle /\ ~ctor.called
    /\ helper' = [op |-> "normalize", value |-> value, policy |-> policy,
                  out |-> normalize_load_with_policy(value, "Mu", policy)]
    /\ UNCHANGED <<section, ctor, call, rest>>

\* flexure_tab.py: the checklist of the design of one face.
Checklist(args) ==
    /\ Idle /\ ~ctor.called
    /\ helper' = [op |-> "checklist", args |-> args,
                  out |-> build_flexure_checklist(
                              "Inferior (+)",
                              calculate_flexure(
                                  BeamSection(args[1], args[2], args[3], args[4], args[5]),
                                  args[6]).res)]
    /\ UNCHANGED <<section, ctor, call, rest>>

\* report_tab.py: bundle = build_design_report(section, snapshot), and the
\* payload it exports; one report after the other on the Section of the run.
Report(design_inputs) ==
    /\ section.exists
    /\ call.op = "none" /\ helper.op = "none"
    /\ session = <<>> /\ threads = <<>>
    /\ Len(reports) < MaxReports
    /\ reports' = Append(reports,
          [design_inputs |-> design_inputs,
           out |-> ReportExport(build_design_report(section, design_inputs))])
    /\ UNCHANGED <<section, ctor, call, helper, session, threads, heap>>

\* The calls of the tabs on st.session_state, starting from the empty dict.
InitDesignState ==
    /\ ~ctor.called /\ call.op = "none" /\ helper.op = "none"
    /\ reports = <<>> /\ threads = <<>>
    /\ Len(session) < MaxSessionCalls
    /\ session' = Append(session, [op |-> "init", kwargs |-> <<>>,
                                   state |-> init_design_state(SessionState),
                                   out |-> <<>>])
    /\ UNCHANGED <<section, ctor, call, helper, reports, threads, heap>>

UpdateDesignInputs(kwargs) ==
    /\ ~ctor.called /\ call.op = "none" /\ helper.op = "none"
    /\ reports = <<>> /\ threads = <<>>
    /\ Len(session) < MaxSessionCalls
    /\ session' = Append(session, [op |-> "update", kwargs |-> kwargs,
                                   state |-> update_design_inputs(SessionState, kwargs),
                                   out |-> <<>>])
    /\ UNCHANGED <<section, ctor, call, helper, reports, threads, heap>>

GetDesignSnapshot ==
    /\ ~ctor.called /\ call.op = "none" /\ helper.op = "none"
    /\ reports = <<>> /\ threads = <<>>
    /\ Len(session) < MaxSessionCalls
    /\ session' = Append(session, [op |-> "get", kwargs |-> <<>>,
                                   state |-> init_design_state(SessionState),
                                   out |-> get_design_snapshot(SessionState)])
    /\ UNCHANGED <<section, ctor, call, helper, reports, threads, heap>>

\* Concurrent callers.  An engine keeps everything in local variables except
\* the trace list, an object on the heap that the result refers to: `heap` is
\* the sequence of the list objects allocated so far, and a thread holds the
\* index of its list.  NewList is the object `trace: list[TraceCheck] = []`
\* (or the default_factory of ResultBase.trace) evaluates to: a new one.
SharedList(h) == 1

NewList(h) == Len(h) + 1

\* The engine call a thread makes, run on its own.
EngineCall(sec, c) ==
    CASE c.op = "flexure" -> calculate_flexure(sec, c.load)
      [] c.op = "shear" -> calculate_shear(sec, c.load, c.n_legs, c.stirrup_diameter)
      [] c.op = "torsion" -> calculate_torsion(sec, c.load, c.vu)

\* The callers that may be inside an engine at the same time, and their calls.
Callers == {1, 2}

ThreadCalls ==
    {[op |-> "flexure", load |-> FromInt(-100), vu |-> Zero, n_legs |-> 0,
      stirrup_diameter |-> Zero],
     [op |-> "flexure", load |-> FromInt(1000), vu |-> Zero, n_legs |-> 0,
      stirrup_diameter |-> Zero],
     [op |-> "shear", load |-> FromInt(-300), vu |-> Zero, n_legs |-> 2,
      stirrup_diameter |-> Dec(95, -2)],
     [op |-> "torsion", load |-> FromInt(-20), vu |-> FromInt(50), n_legs |-> 0,
      stirrup_diameter |-> Zero],
     [op |-> "torsion", load |-> FromInt(20), vu |-> FromInt(-50), n_legs |-> 0,
      stirrup_diameter |-> Zero],
     [op |-> "torsion", load |-> Dec(1, 160), vu |-> FromInt(50), n_legs |-> 0,
      stirrup_diameter |-> Zero]}

\* A caller enters an engine: its trace list is allocated.
CallBegin(c) ==
    /\ section.exists
    /\ call.op = "none" /\ helper.op = "none" /\ reports = <<>> /\ session = <<>>
    /\ Len(threads) + 1 \in Callers
    /\ threads' = Append(threads, [call |-> c, pc |-> "running", n |-> 0,
                                   trace |-> NewList(heap), out |-> NoResult])
    /\ heap' = IF NewList(heap) > Len(heap) THEN Append(heap, <<>>) ELSE heap
    /\ UNCHANGED <<section, ctor, call, helper, reports, session>>

\* A caller inside an engine takes its next step, `alone` being what its call
\* computes: the exception, the next trace.append, or the return of the result
\* that refers to the list.
ThreadStep(t, alone) ==
    IF alone.raised
    THEN /\ threads' = [threads EXCEPT ![t].pc = "raised"]
         /\ heap' = heap
    ELSE IF threads[t].n < Len(alone.res.trace)
    THEN /\ threads' = [threads EXCEPT ![t].n = threads[t].n + 1]
         /\ heap' = [heap EXCEPT ![threads[t].trace] =
                        Append(@, alone.res.trace[threads[t].n + 1])]
    ELSE /\ threads' = [threads EXCEPT
                           ![t].pc = "returned",
                           ![t].out = [alone.res EXCEPT !.trace = threads[t].trace]]
         /\ heap' = heap

CallStep(t) ==
    /\ t \in 1..Len(threads)
    /\ threads[t].pc = "running"
    /\ ThreadStep(t, EngineCall(section, threads[t].call))
    /\ UNCHANGED <<section, ctor, call, helper, reports, session>>

\* The caller is done with what the helper returned, with the reports, with the
\* session, or with the results of the threads.
Discard ==
    /\ helper.op # "none" \/ reports # <<>> \/ session # <<>> \/ threads # <<>>
    /\ helper' = NoHelper
    /\ reports' = <<>>
    /\ session' = <<>>
    /\ threads' = <<>>
    /\ heap' = <<>>
    /\ UNCHANGED <<section, ctor, call>>

Next ==
    \/ \E args \in CtorArgs : NewSection(args)
    \/ \E Mu \in MuLoads : Flexure(Mu)
    \/ \E Vu \in VuLoads, n \in LegCounts, dia \in StirrupDiametersCm : Shear(Vu, n, dia)
    \/ \E Tu \in TuLoads, Vu \in VuTorsionLoads : Torsion(Tu, Vu)
    \/ Render
    \/ \E args \in DistributionArgs : Distribute(args)
    \/ \E obj \in GeometryObjects : Validate(obj)
    \/ \E args \in ChecklistArgs : Checklist(args)
    \/ \E value \in RawLoads, policy \in {"abs_with_warning", "reject_negative"} :
          NormalizeLoad(value, policy)
    \/ \E design_inputs \in ReportInputs : Report(design_inputs)
    \/ InitDesignState
    \/ \E kwargs \in UpdateKwargs : UpdateDesignInputs(kwargs)
    \/ GetDesignSnapshot
    \/ \E c \in ThreadCalls : CallBegin(c)
    \/ \E t \in Callers : CallStep(t)
    \/ Discard

Spec == Init /\ [][Next]_vars
-----------------------------------------------------------------------------
(* Properties of the constructor and of the three engines                   *)

\* C1: for every Section the constructor accepted and every finite load (any
\* sign, n_legs >= 0, stirrup diameter >= 0), calculate_flexure, calculate_shear
\* and calculate_torsion return a result without raising, and its status_code
\* is one of ok, warning, error.
C1_EnginesAlwaysReturn ==
    call.op # "none" =>
        /\ ~call.out.raised
        /\ call.out.res.status_code \in {"ok", "warning", "error"}

\* C2: BeamSection(...) raises, and no Section exists, unless b > 0, h > 0,
\* 0 < cover < h, fc > 0 and fy > 0; so every Section that exists has all five,
\* cover > 0 among them.
C2_ConstructorEnforcesInvariants ==
    ctor.called =>
        \/ ctor.raised /\ ~section.exists
        \/ /\ FGt(ctor.args[1], Zero)
           /\ FGt(ctor.args[2], Zero)
           /\ FGt(ctor.args[5], Zero)
           /\ FLt(ctor.args[5], ctor.args[2])
           /\ FGt(ctor.args[3], Zero)
           /\ FGt(ctor.args[4], Zero)

\* C3: the trace of every result calculate_torsion returns for a section that
\* passes geometry validation holds, in computation order, every TraceCheck of
\* the call: the sign normalisations of the negative loads, the T_th step
\* always, the combined-stress step whenever torsion is not negligible, and the
\* At/s and Al steps whenever reinforcement is designed, whether or not a load
\* was negative.
C3_TorsionTraceComplete ==
    (/\ call.op = "torsion"
     /\ validate_section_geometry(section) = <<>>
     /\ ~call.out.raised) =>
        LET r == call.out.res
            ids == [i \in 1..Len(r.trace) |-> r.trace[i].formula_id]
            signs == (IF FLt(call.load, Zero)
                      THEN << <<"Tu", "_SIGN_NORMALIZATION">> >> ELSE <<>>)
                     \o (IF FLt(call.vu, Zero)
                         THEN << <<"Vu", "_SIGN_NORMALIZATION">> >> ELSE <<>>)
            stress == IF r.status_code = "ok" THEN <<>>
                      ELSE << <<"combined_shear_torsion_stress">> >>
            steel == IF r.status_code = "warning"
                     THEN << <<"At_over_s">>, <<"Al_min_and_required">> >>
                     ELSE <<>>
        IN  ids = signs \o << <<"T_th">> >> \o stress \o steel

\* C4, as the specification states it: for every section and every moment Mu,
\* calculate_flexure(section, Mu) and calculate_flexure(section, -Mu) return
\* equal results.
C4_SignInvariance ==
    call.op = "flexure" =>
        call.out = calculate_flexure(section, FNeg(call.load))

\* C4, as the code has it: calculate_flexure(section, Mu) and
\* calculate_flexure(section, -Mu) both return, and their results are equal in
\* every field but the trace; on a section that passes geometry validation the
\* trace of the call with the negative moment is the trace of the other call
\* after one leading Mu sign-normalisation entry of status warning, and
\* otherwise the two traces are equal.
C4_SignInvarianceUpToTrace ==
    call.op = "flexure" =>
        LET other == calculate_flexure(section, FNeg(call.load))
            neg == IF FLt(call.load, Zero) THEN call.out.res ELSE other.res
            pos == IF FLt(call.load, Zero) THEN other.res ELSE call.out.res
        IN  /\ ~call.out.raised
            /\ ~other.raised
            /\ [neg EXCEPT !.trace = <<>>] = [pos EXCEPT !.trace = <<>>]
            /\ IF call.load # Zero /\ validate_section_geometry(section) = <<>>
               THEN /\ Len(neg.trace) = Len(pos.trace) + 1
                    /\ neg.trace[1].formula_id = <<"Mu", "_SIGN_NORMALIZATION">>
                    /\ neg.trace[1].status = "warning"
                    /\ neg.trace[1].value = FAbs(call.load)
                    /\ SubSeq(neg.trace, 2, Len(neg.trace)) = pos.trace
               ELSE neg.trace = pos.trace

\* A negative moment was designed for on a valid section.
C4_Witness ==
    /\ call.op = "flexure"
    /\ validate_section_geometry(section) = <<>>
    /\ FLt(call.load, Zero)
    /\ ~call.out.raised
    /\ call.out.res.status_code = "ok"
    /\ FGt(call.out.res.As_calc, Zero)
    /\ Len(call.out.res.trace) = 3

\* C5: on every geometrically valid section, calculate_flexure with a moment of
\* magnitude zero or under 1e-6 N mm returns As_calc = 0, As_design = As_min > 0,
\* phi = 0.9, epsilon_t = 1.0, status_code ok and the minimum-steel status, and
\* the solver is not entered: the trace ends with the As_min entry.
C5_NegligibleMomentMinSteel ==
    (/\ call.op = "flexure"
     /\ validate_section_geometry(section) = <<>>
     /\ FLt(FMul(FAbs(call.load), Dec(1, 6)), Dec(1, -6))) =>
        /\ ~call.out.raised
        /\ LET r == call.out.res
           IN  /\ r.As_calc = Zero
               /\ r.As_design = r.As_min
               /\ FGt(r.As_min, Zero)
               /\ r.phi = Dec(9, -1)
               /\ r.epsilon_t = Dec(1, 0)
               /\ r.status_code = "ok"
               /\ r.status = <<"OK (Min Steel)">>
               /\ r.trace # <<>>
               /\ r.trace[Len(r.trace)].formula_id = <<"As_min">>

\* A moment that is not zero and under the threshold got minimum steel.
C5_Witness ==
    /\ call.op = "flexure"
    /\ validate_section_geometry(section) = <<>>
    /\ call.load # Zero
    /\ FLt(FMul(FAbs(call.load), Dec(1, 6)), Dec(1, -6))
    /\ ~call.out.raised
    /\ call.out.res.status = <<"OK (Min Steel)">>
    /\ call.out.res.As_design = call.out.res.As_min

\* C6: whenever the discriminant of the flexure quadratic is negative at an
\* iteration of the phi loop, the first or a later one, calculate_flexure
\* raises nothing and returns status_code error, As_calc = As_design = rho = 0,
\* As_min as computed, phi equal to the phi at which the discriminant is
\* negative, and a last trace entry of status error.
C6_NegativeDiscriminantIsError ==
    (/\ call.op = "flexure"
     /\ validate_section_geometry(section) = <<>>
     /\ ~FLt(FMul(FAbs(call.load), Dec(1, 6)), Dec(1, -6))
     /\ _iterate_phi(section, kNm_to_Nmm(call.load), cm_to_mm(section.b),
                     cm_to_mm(section.d), section.fc, section.fy).error) =>
        /\ ~call.out.raised
        /\ LET r == call.out.res
               q == PhiTerms(section, kNm_to_Nmm(call.load), cm_to_mm(section.b),
                             cm_to_mm(section.d), section.fc, section.fy)
           IN  /\ r.status_code = "error"
               /\ r.As_calc = Zero
               /\ r.As_design = Zero
               /\ r.rho = Zero
               /\ r.As_min = mm2_to_cm2(_compute_As_min(section.fc, section.fy,
                                                        cm_to_mm(section.b),
                                                        cm_to_mm(section.d)))
               /\ FGt(r.As_min, Zero)
               /\ FLt(Discriminant(q, r.phi), Zero)
               /\ r.phi = PHI_TENSION \/ ~FLt(Discriminant(q, PHI_TENSION), Zero)
               /\ r.trace # <<>>
               /\ r.trace[Len(r.trace)].status = "error"

\* The discriminant went negative after phi was lowered from 0.9.
C6_Witness ==
    /\ call.op = "flexure"
    /\ validate_section_geometry(section) = <<>>
    /\ ~call.out.raised
    /\ call.out.res.status_code = "error"
    /\ FLt(call.out.res.phi, PHI_TENSION)
    /\ call.out.res.As_design = Zero

\* C7: on every geometrically valid section, calculate_shear with
\* |Vu| <= 0.5 * 0.75 * Vc returns Vs_req = 0, s_req = None, s_max = d/2,
\* status_code ok and the no-reinforcement status, and with |Vu| above that
\* threshold it never returns that status.
C7_NoStirrupsUpToHalfPhiVc ==
    (call.op = "shear" /\ validate_section_geometry(section) = <<>>) =>
        /\ ~call.out.raised
        /\ LET r == call.out.res
               Vc == _compute_Vc(section.fc, cm_to_mm(section.b), cm_to_mm(section.d))
               below == FLe(FMul(FAbs(call.load), Dec(1, 3)),
                            FMul(Dec(5, -1), FMul(Dec(75, -2), Vc)))
               none_needed ==
                   r.status = <<"No Shear Reinforcement Required (Vu < 0.5 * phi * Vc)">>
           IN  IF below
               THEN /\ none_needed
                    /\ r.status_code = "ok"
                    /\ r.Vs_req = Zero
                    /\ r.s_req = None
                    /\ r.s_max = FDiv(section.d, FromInt(2))
               ELSE ~none_needed

\* A negative shear under the threshold needed no stirrups.
C7_Witness ==
    /\ call.op = "shear"
    /\ validate_section_geometry(section) = <<>>
    /\ FLt(call.load, Zero)
    /\ ~call.out.raised
    /\ call.out.res.status =
           <<"No Shear Reinforcement Required (Vu < 0.5 * phi * Vc)">>
    /\ call.out.res.s_req = None
    /\ call.out.res.s_max = FDiv(section.d, FromInt(2))

\* C8: on every geometrically valid section, calculate_shear returns
\* status_code error exactly when Vs_req = |Vu| / 0.75 - Vc exceeds
\* Vs_max = 0.66 * sqrt(fc) * b * d; that result has s_req = s_max = None and a
\* last trace entry of status error.
C8_ShearErrorIffVsExceedsVsMax ==
    (call.op = "shear" /\ validate_section_geometry(section) = <<>>) =>
        /\ ~call.out.raised
        /\ LET r == call.out.res
               b_mm == cm_to_mm(section.b)
               d_mm == cm_to_mm(section.d)
               Vs_req == FSub(FDiv(FMul(FAbs(call.load), Dec(1, 3)), Dec(75, -2)),
                              _compute_Vc(section.fc, b_mm, d_mm))
               Vs_max == FMul(FMul(FMul(Dec(66, -2), FSqrt(section.fc)), b_mm), d_mm)
           IN  /\ (r.status_code = "error") <=> FGt(Vs_req, Vs_max)
               /\ r.status_code = "error" =>
                      /\ r.s_req = None
                      /\ r.s_max = None
                      /\ r.trace # <<>>
                      /\ r.trace[Len(r.trace)].status = "error"

\* A shear beyond what stirrups can carry was refused.
C8_Witness ==
    /\ call.op = "shear"
    /\ validate_section_geometry(section) = <<>>
    /\ ~call.out.raised
    /\ call.out.res.status_code = "error"
    /\ call.out.res.s_req = None
    /\ call.out.res.s_max = None
    /\ FGt(call.out.res.Vs_req, Zero)

\* C9: on every section that passes geometry validation, calculate_torsion
\* returns one of three outcomes, decided in this order: |Tu| < 0.75 * T_th gives
\* the Neglectable status, status_code ok, At/s = 0 and Al = 0; otherwise a
\* combined stress over its limit gives status_code error (Too Small),
\* At/s = 0 and Al = 0; otherwise the status is Torsion Reinforcement Required,
\* status_code warning, At/s > 0 and Al > 0.  |Tu| = 0.75 * T_th is not
\* negligible.
C9_TorsionThreeOutcomes ==
    (call.op = "torsion" /\ validate_section_geometry(section) = <<>>) =>
        /\ ~call.out.raised
        /\ LET r == call.out.res
           IN  IF FLt(FAbs(call.load), r.phi_T_th)
               THEN /\ r.status = <<"Torsion Neglectable (Tu < phi * T_th)">>
                    /\ r.status_code = "ok"
                    /\ r.At_s_req = Zero
                    /\ r.Al_req = Zero
               ELSE IF FGt(r.check_cross_section.lhs, r.check_cross_section.rhs)
               THEN /\ r.status = <<"Error: Cross-Section Too Small for Torsion+Shear!">>
                    /\ r.status_code = "error"
                    /\ r.At_s_req = Zero
                    /\ r.Al_req = Zero
               ELSE /\ r.status = <<"Torsion Reinforcement Required">>
                    /\ r.status_code = "warning"
                    /\ FGt(r.At_s_req, Zero)
                    /\ FGt(r.Al_req, Zero)

\* C10: given a section whose cover makes x1 = b - 2 * cover <= 0 or
\* y1 = h - 2 * cover <= 0, calculate_torsion returns the Aoh failure:
\* status_code error, the action 'Increase section or reduce cover' and
\* check_cross_section 'N/A'.
C10_AohFailureReported ==
    (/\ call.op = "torsion"
     /\ \/ FLe(FSub(cm_to_mm(section.b), FMul(FromInt(2), cm_to_mm(section.cover))),
               Zero)
        \/ FLe(FSub(cm_to_mm(section.h), FMul(FromInt(2), cm_to_mm(section.cover))),
               Zero)) =>
        /\ ~call.out.raised
        /\ call.out.res.status_code = "error"
        /\ call.out.res.action = "Increase section or reduce cover"
        /\ call.out.res.check_cross_section.msg = "N/A"

-----------------------------------------------------------------------------
(* Properties of the helper functions                                       *)

\* C11: for every Al > 0, every b, h, cover and every requested bar count,
\* distribute_torsion_longitudinal_reinf returns face counts with
\* n_bottom + n_top + 2 * n_side_each = n_bars, and face areas with
\* al_bottom + al_top + 2 * al_side_each equal to Al; for Al <= 0 every area
\* and every face count returned is zero.
C11_DistributionConservesArea ==
    helper.op = "distribute" =>
        /\ ~helper.out.raised
        /\ LET dist == helper.out.res
           IN  IF FGt(helper.args[1], Zero)
               THEN /\ dist.n_bottom + dist.n_top + 2 * dist.n_side_each = dist.n_bars
                    /\ FAdd(FAdd(dist.al_bottom, dist.al_top),
                            FMul(FromInt(2), dist.al_side_each)) = helper.args[1]
               ELSE /\ dist.al_total = Zero /\ dist.al_per_bar = Zero
                    /\ dist.al_bottom = Zero /\ dist.al_top = Zero
                    /\ dist.al_side_each = Zero
                    /\ dist.n_bottom = 0 /\ dist.n_top = 0 /\ dist.n_side_each = 0

\* C16: validate_section_geometry returns every violated rule (b > 0 and
\* h > 0, cover > 0, d > 0, cover < min(b, h)/2), not only the first, and an
\* empty list iff all hold; each of the three engines, when the list for its
\* section is not empty, returns a result with status_code error whose status
\* joins all the violation messages, an empty trace and, for flexure,
\* phi = 0.65.
C16_ValidationReportsEveryViolation ==
    /\ helper.op = "validate" =>
           LET b == helper.obj[1]
               h == helper.obj[2]
               cover == helper.obj[3]
               d == helper.obj[4]
               rules == <<[holds |-> FGt(b, Zero) /\ FGt(h, Zero),
                           message |-> "Invalid section dimensions: width/height must be positive."],
                          [holds |-> FGt(cover, Zero),
                           message |-> "Invalid cover: cover must be positive."],
                          [holds |-> FGt(d, Zero),
                           message |-> "Invalid effective depth: d must be positive."],
                          [holds |-> FLt(cover, FDiv(FMin(b, h), FromInt(2))),
                           message |-> "Cover is too large relative to section dimensions."]>>
               violated == SelectSeq(rules, LAMBDA r : ~r.holds)
           IN  /\ helper.out = [k \in 1..Len(violated) |-> violated[k].message]
               /\ helper.out = <<>> <=> \A k \in 1..4 : rules[k].holds
    /\ (call.op \in {"flexure", "shear", "torsion"}
          /\ validate_section_geometry(section) # <<>>) =>
           /\ ~call.out.raised
           /\ call.out.res.status_code = "error"
           /\ call.out.res.status
                = <<"Error: ">> \o JoinBar(validate_section_geometry(section))
           /\ call.out.res.trace = <<>>
           /\ call.op = "flexure" => call.out.res.phi = Dec(65, -2)

\* Every rule is violated at once and all four messages are returned.
C16_Witness ==
    /\ helper.op = "validate"
    /\ Len(helper.out) = 4

\* C17: normalize_load_with_policy returns a value >= 0 unchanged with no
\* trace entry; for a negative value under reject_negative it fails without
\* returning a value; for a negative value under abs_with_warning it returns
\* |value| together with exactly one TraceCheck of status warning that records
\* the raw input.  A returned value is never negative.
C17_NormalizeLoadPolicy ==
    helper.op = "normalize" =>
        /\ FGe(helper.value, Zero) =>
               helper.out = [raised |-> FALSE, value |-> helper.value, trace |-> <<>>]
        /\ (FLt(helper.value, Zero) /\ helper.policy = "reject_negative") =>
               helper.out.raised
        /\ (FLt(helper.value, Zero) /\ helper.policy = "abs_with_warning") =>
               /\ ~helper.out.raised
               /\ helper.out.value = FAbs(helper.value)
               /\ Len(helper.out.trace) = 1
               /\ helper.out.trace[1].status = "warning"
               /\ helper.out.trace[1].inputs = <<<<"raw_input", helper.value>>>>
        /\ ~helper.out.raised => FGe(helper.out.value, Zero)

\* A negative load was converted under the default policy.
C17_Witness ==
    /\ helper.op = "normalize"
    /\ helper.policy = "abs_with_warning"
    /\ FLt(helper.value, Zero)
    /\ ~helper.out.raised
    /\ Len(helper.out.trace) = 1

-----------------------------------------------------------------------------
(* Properties of the flexure checklist                                      *)

\* C21, as the specification states it: for every flexure result produced by
\* calculate_flexure, build_flexure_checklist returns the minimum-steel row
\* then the ductility row, plus a third capacity-failure row (formula
\* phiMn_quadratic_discriminant, state "no cumple") exactly when status_code is
\* error; the ductility row's state is "advertencia" exactly when status_code
\* is warning and "cumple" exactly when it is ok; and the governing criterion
\* is "Gobierna acero mínimo" exactly when the result is not an error and
\* As_design <= As_min.
C21_ChecklistExactMinimum ==
    helper.op = "checklist" =>
        LET res == calculate_flexure(
                       BeamSection(helper.args[1], helper.args[2], helper.args[3],
                                   helper.args[4], helper.args[5]),
                       helper.args[6]).res
            rows == helper.out
        IN  /\ Len(rows) = IF res.status_code = "error" THEN 3 ELSE 2
            /\ rows[1].Formula = "As_min"
            /\ rows[2].Formula = "phi_strain_classification"
            /\ res.status_code = "error" =>
                   /\ rows[3].Formula = "phiMn_quadratic_discriminant"
                   /\ rows[3].Estado = "no cumple"
            /\ rows[2].Estado = "advertencia" <=> res.status_code = "warning"
            /\ rows[2].Estado = "cumple" <=> res.status_code = "ok"
            /\ rows[1].Comentario = <<"Gobierna acero mínimo">>
                   <=> (res.status_code # "error" /\ FLe(res.As_design, res.As_min))

\* C21, as the code has it: the rows and the states are as stated, and the
\* governing criterion is "Gobierna acero mínimo" exactly when the result is
\* not an error and As_design <= As_min + 1e-9 (areas in cm2).
C21_ChecklistMinimumWithAllowance ==
    helper.op = "checklist" =>
        LET res == calculate_flexure(
                       BeamSection(helper.args[1], helper.args[2], helper.args[3],
                                   helper.args[4], helper.args[5]),
                       helper.args[6]).res
            rows == helper.out
        IN  /\ Len(rows) = IF res.status_code = "error" THEN 3 ELSE 2
            /\ rows[1].Check = "Acero mínimo" /\ rows[1].Formula = "As_min"
            /\ rows[2].Check = "Ductilidad y factor phi"
            /\ rows[2].Formula = "phi_strain_classification"
            /\ res.status_code = "error" =>
                   /\ rows[3].Formula = "phiMn_quadratic_discriminant"
                   /\ rows[3].Estado = "no cumple"
            /\ rows[2].Estado = "advertencia" <=> res.status_code = "warning"
            /\ rows[2].Estado = "cumple" <=> res.status_code = "ok"
            /\ rows[1].Comentario = <<"Gobierna acero mínimo">>
                   <=> (/\ res.status_code # "error"
                        /\ FLe(res.As_design, FAdd(res.As_min, Dec(1, -9))))

\* The design needs more steel than the minimum, by less than the allowance,
\* and the checklist says that the minimum governs.
C21_Witness ==
    /\ helper.op = "checklist"
    /\ Len(helper.out) = 2
    /\ helper.out[1].Comentario = <<"Gobierna acero mínimo">>
    /\ helper.out[2].Estado = "cumple"
    /\ LET res == calculate_flexure(
                      BeamSection(helper.args[1], helper.args[2], helper.args[3],
                                  helper.args[4], helper.args[5]),
                      helper.args[6]).res
       IN  FGt(res.As_design, res.As_min)
-----------------------------------------------------------------------------
(* Properties of the design report                                          *)

\* C12: the payload returned by build_design_report(...).export_payload()
\* contains, besides flexure_pos, shear, torsion and warnings, a flexure_summary
\* of exactly two entries (face "Inferior (+)" first, "Superior (-)" second) and
\* a flexure_checklist; the bundle itself exposes flexure_summary.
C12_PayloadHasFlexureSummary ==
    \A i \in 1..Len(reports) :
        ~reports[i].out.raised =>
            LET payload == reports[i].out.payload
            IN  /\ {"flexure_pos", "shear", "torsion", "warnings"} \subseteq DOMAIN payload
                /\ "flexure_summary" \in DOMAIN payload
                /\ Len(payload.flexure_summary) = 2
                /\ payload.flexure_summary[1].cara = "Inferior (+)"
                /\ payload.flexure_summary[2].cara = "Superior (-)"
                /\ "flexure_checklist" \in DOMAIN payload
                /\ "flexure_summary" \in DOMAIN reports[i].out.bundle

\* C13: for every (Section, DesignInputs), build_design_report yields
\* governing_criteria of exactly four rows in the fixed order flexure(+),
\* flexure(-), shear, torsion, each row's state equal to that result's status,
\* and a warnings list that holds, in that same order, the status of exactly
\* those of the four results whose status_code is warning or error.
C13_GoverningCriteriaAndWarnings ==
    \A i \in 1..Len(reports) :
        /\ ~reports[i].out.raised
        /\ LET bundle == reports[i].out.bundle
               results == <<[code |-> bundle.flexure_pos.status_code,
                             status |-> bundle.flexure_pos.status],
                            [code |-> bundle.flexure_neg.status_code,
                             status |-> bundle.flexure_neg.status],
                            [code |-> bundle.shear_res.status_code,
                             status |-> bundle.shear_res.status],
                            [code |-> bundle.torsion_res.status_code,
                             status |-> bundle.torsion_res.status]>>
               flagged == SelectSeq(results, LAMBDA r : r.code \in {"warning", "error"})
           IN  /\ Len(bundle.governing_criteria) = 4
               /\ [k \in 1..4 |-> bundle.governing_criteria[k].mecanismo]
                    = <<"Flexión (+)", "Flexión (-)", "Cortante", "Torsión">>
               /\ \A k \in 1..4 : bundle.governing_criteria[k].estado = results[k].status
               /\ bundle.warnings = [k \in 1..Len(flagged) |-> flagged[k].status]

C19_MappingViewKeys ==
    \A i \in 1..Len(reports) :
        ~reports[i].out.raised =>
            /\ DOMAIN reports[i].out.payload.flexure_pos
                 = {"As_calc", "As_min", "As_design", "rho", "phi", "epsilon_t",
                    "status", "c", "a"}
            /\ DOMAIN reports[i].out.payload.torsion
                 = {"Tu", "T_th", "phi_T_th", "T_cr", "phi_T_cr", "status",
                    "At_s_req", "At_s_req_cm2_m", "Al_req", "check_cross_section",
                    "action"}

-----------------------------------------------------------------------------
(* Properties that compare two designs                                      *)

\* C18: for a fixed moment and otherwise identical sections, increasing fc, or
\* increasing fy, strictly decreases the As_calc returned by calculate_flexure.
C18_StrengthLowersSteel ==
    call.op = "flexure" =>
        \A args \in CtorArgs :
            LET stronger == BeamSection(args[1], args[2], args[3], args[4], args[5])
            IN  (/\ stronger.exists
                 /\ stronger.b = section.b
                 /\ stronger.h = section.h
                 /\ stronger.cover = section.cover
                 /\ \/ FGt(stronger.fc, section.fc) /\ stronger.fy = section.fy
                    \/ stronger.fc = section.fc /\ FGt(stronger.fy, section.fy)) =>
                    /\ ~call.out.raised
                    /\ ~calculate_flexure(stronger, call.load).raised
                    /\ FLt(calculate_flexure(stronger, call.load).res.As_calc,
                           call.out.res.As_calc)

-----------------------------------------------------------------------------
(* Properties of concurrent calls                                           *)

\* C15: engine calls issued by several concurrent callers on the same Section,
\* interleaved in any way, each return the same result as when that call runs
\* alone: a call writes only the list it allocated, what it has written is
\* what it would have written alone, and the trace list of each result is
\* private to its call.
C15_ConcurrentCallsAsAlone ==
    \A t \in 1..Len(threads) :
        LET alone == EngineCall(section, threads[t].call)
        IN  /\ threads[t].pc = "raised" => alone.raised
            /\ ~alone.raised =>
                   heap[threads[t].trace] = SubSeq(alone.res.trace, 1, threads[t].n)
            /\ threads[t].pc = "returned" =>
                   /\ ~alone.raised
                   /\ [threads[t].out EXCEPT !.trace = heap[threads[t].out.trace]]
                        = alone.res
            /\ \A u \in 1..Len(threads) :
                   u # t => threads[u].trace # threads[t].trace

\* The second caller entered after the first, wrote its whole trace and
\* returned while the first was still between two of its appends.
C15_Witness ==
    /\ Len(threads) = 2
    /\ threads[1].pc = "running"
    /\ threads[1].n >= 1
    /\ threads[1].n < Len(EngineCall(section, threads[1].call).res.trace)
    /\ threads[2].pc = "returned"
    /\ Len(heap[threads[2].out.trace]) >= 3
    /\ threads[1].call.op = threads[2].call.op
-----------------------------------------------------------------------------
(* Properties of the session state                                          *)

\* C20: after init_design_state and any sequence of update_design_inputs calls
\* on a session state, get_design_snapshot returns for each field the value of
\* the most recent update that set it, or the DesignInputs default when no
\* update set it; init_design_state or get_design_snapshot called on a state
\* that is already initialised changes no stored value.
C20_SnapshotFollowsUpdates ==
    \A i \in 1..Len(session) :
        /\ session[i].op = "get" =>
               LET defaults == [mu_pos |-> FromInt(100), mu_neg |-> Zero,
                                vu |-> FromInt(50), tu |-> FromInt(15),
                                vu_torsion |-> FromInt(50), n_legs |-> 2,
                                stirrup_bar |-> <<"#3", " (3/8\")">>,
                                n_bars_torsion |-> 6]
                   setters(f) == {j \in 1..(i - 1) : /\ session[j].op = "update"
                                                     /\ f \in DOMAIN session[j].kwargs}
                   last(f) == CHOOSE j \in setters(f) : \A k \in setters(f) : k <= j
               IN  /\ DOMAIN session[i].out = DOMAIN defaults
                   /\ \A f \in DOMAIN defaults :
                          IF setters(f) = {} THEN session[i].out[f] = defaults[f]
                          ELSE LET x == session[last(f)].kwargs[f]
                               IN  IF x.t = "int" /\ f \notin {"n_legs", "n_bars_torsion"}
                                   THEN session[i].out[f] = FromInt(x.v)
                                   ELSE session[i].out[f] = x.v
        /\ (session[i].op \in {"init", "get"} /\ i > 1) =>
               session[i].state = session[i - 1].state

\* A snapshot taken after two updates of mu_pos, an init_design_state call on
\* the initialised state and no update of tu: it has the second mu_pos and the
\* default tu.
C20_Witness ==
    /\ Len(session) = 4
    /\ session[1].op = "update" /\ "mu_pos" \in DOMAIN session[1].kwargs
    /\ session[2].op = "update" /\ "mu_pos" \in DOMAIN session[2].kwargs
    /\ session[1].kwargs.mu_pos # session[2].kwargs.mu_pos
    /\ session[3].op = "init"
    /\ session[4].op = "get"
    /\ session[4].out.mu_pos = FromInt(200)
    /\ session[4].out.vu = FromInt(95)
    /\ session[4].out.tu = FromInt(15)

-----------------------------------------------------------------------------
(* Properties of the flexure solver                                         *)

\* C22: for every result that calculate_flexure returns after running the
\* solver without a capacity failure, the status is decided by epsilon_t alone:
\* status_code ok iff epsilon_t >= 0.005, the warning "Transition Zone" iff
\* 0.004 <= epsilon_t < 0.005, the warning "Low Ductility" iff
\* epsilon_t < 0.004, also when the loop reached its cap unconverged.
C22_StatusFromStrainAlone ==
    (/\ call.op = "flexure"
     /\ ~call.out.raised
     /\ call.out.res.trace # <<>>
     /\ call.out.res.trace[Len(call.out.res.trace)].formula_id
          = <<"phi_strain_classification">>) =>
        LET r == call.out.res
        IN  /\ r.status_code \in {"ok", "warning"}
            /\ r.status_code = "ok" <=> FGe(r.epsilon_t, Dec(5, -3))
            /\ r.status_code = "ok" => r.status = <<"OK">>
            /\ r.status = <<"Transition Zone (epsilon_t < 0.005)">>
                  <=> (FGe(r.epsilon_t, Dec(4, -3)) /\ FLt(r.epsilon_t, Dec(5, -3)))
            /\ r.status = <<"Warning: Low Ductility (epsilon_t < 0.004)">>
                  <=> FLt(r.epsilon_t, Dec(4, -3))
            /\ r.status_code = "warning"
                  <=> r.status \in {<<"Transition Zone (epsilon_t < 0.005)">>,
                                    <<"Warning: Low Ductility (epsilon_t < 0.004)">>}

\* The solver ran and the strain is in the transition zone.
C22_Witness ==
    /\ call.op = "flexure"
    /\ ~call.out.raised
    /\ Len(call.out.res.trace) = 2
    /\ call.out.res.trace[2].formula_id = <<"phi_strain_classification">>
    /\ call.out.res.status = <<"Transition Zone (epsilon_t < 0.005)">>
    /\ FGe(call.out.res.epsilon_t, Dec(4, -3))
    /\ FLt(call.out.res.epsilon_t, Dec(5, -3))

\* C23: in every flexure result that is not an error, As_design is the larger
\* of As_calc and As_min, so it is at least each of them; a result whose
\* As_design is below As_min is an error result.
C23_DesignSteelIsLargerOfTwo ==
    (call.op = "flexure" /\ ~call.out.raised) =>
        LET r == call.out.res
        IN  /\ r.status_code # "error" =>
                  /\ r.As_design = FMax(r.As_calc, r.As_min)
                  /\ FGe(r.As_design, r.As_calc)
                  /\ FGe(r.As_design, r.As_min)
            /\ FLt(r.As_design, r.As_min) => r.status_code = "error"

\* The solver found a steel area below the minimum and the minimum governs.
C23_Witness ==
    /\ call.op = "flexure"
    /\ ~call.out.raised
    /\ call.out.res.status_code # "error"
    /\ FGt(call.out.res.As_calc, Zero)
    /\ FLt(call.out.res.As_calc, call.out.res.As_min)
    /\ call.out.res.As_design = call.out.res.As_min

\* C24: the phi loop solves the quadratic at most 10 times.  It stops at the
\* first pass where the discriminant is negative, where c <= 0, or where the
\* new phi is within 0.001 of the phi the pass started from, and at no earlier
\* pass; when no pass stops it, the result carries the phi of the tenth pass,
\* is not an error, warns only for the strain, and its trace has no entry
\* beyond the minimum steel and the classification.
C24_PhiLoopStopsAtFirstOrCap ==
    (/\ call.op = "flexure"
     /\ ~call.out.raised
     /\ call.out.res.trace # <<>>
     /\ call.out.res.trace[Len(call.out.res.trace)].formula_id
          \in {<<"phi_strain_classification">>, <<"phiMn_quadratic_discriminant">>}) =>
        LET r == call.out.res
            q == PhiTerms(section, kNm_to_Nmm(FAbs(call.load)), cm_to_mm(section.b),
                          cm_to_mm(section.d), section.fc, section.fy)
            full == PhiStart(q)
            after(k) == PhiLoop(q, MaxIter - k, PHI_TENSION, Zero, Zero, Zero, Dec(1, 0))
            phiIn(k) == IF k = 1 THEN PHI_TENSION ELSE after(k - 1).phi
            negative(k) == FLt(Discriminant(q, phiIn(k)), Zero)
            stops(k) == \/ negative(k)
                        \/ FLe(after(k).c, Zero)
                        \/ FLt(FAbs(FSub(after(k).phi, phiIn(k))), Dec(1, -3))
            passes == IF full.error THEN full.solved + 1 ELSE full.solved
        IN  /\ passes \in 1..10
            /\ \A k \in 1..(passes - 1) : ~stops(k)
            /\ passes < 10 => stops(passes)
            /\ full.error <=> negative(passes)
            /\ full.error <=> r.status_code = "error"
            /\ ~full.error =>
                  /\ r.phi = after(passes).phi
                  /\ r.status_code = "warning" => FLt(r.epsilon_t, Dec(5, -3))
                  /\ Len(r.trace) = (IF FLt(call.load, Zero) THEN 3 ELSE 2)
                  /\ \A n \in 1..Len(r.trace) : r.trace[n].status # "error"

\* The tenth pass ends with a phi still 0.001 or more away from the ninth, and
\* the result is returned with the classification of its strain.
C24_Witness ==
    /\ call.op = "flexure"
    /\ ~call.out.raised
    /\ call.out.res.status_code = "warning"
    /\ LET q == PhiTerms(section, kNm_to_Nmm(FAbs(call.load)), cm_to_mm(section.b),
                         cm_to_mm(section.d), section.fc, section.fy)
           nine == PhiLoop(q, 1, PHI_TENSION, Zero, Zero, Zero, Dec(1, 0))
           ten == PhiStart(q)
       IN  /\ nine.solved = MaxIter
           /\ ten.solved = MaxIter
           /\ ~ten.error
           /\ FGt(ten.c, Zero)
           /\ ~FLt(FAbs(FSub(ten.phi, nine.phi)), Dec(1, -3))
           /\ call.out.res.phi = ten.phi

\* C28: every flexure result has 0.65 <= phi <= 0.9; in every result that is
\* not an error, for a valid section, phi is the piecewise function of the
\* returned epsilon_t: 0.9 from 0.005 up, 0.65 up to 0.002, linear in between.
\* So status_code ok gives phi = 0.9 and phi < 0.9 gives status_code warning.
C28_PhiFollowsStrain ==
    (call.op = "flexure" /\ ~call.out.raised) =>
        LET r == call.out.res
        IN  /\ FGe(r.phi, Dec(65, -2))
            /\ FLe(r.phi, Dec(9, -1))
            /\ (r.status_code # "error" /\ validate_section_geometry(section) = <<>>) =>
                  /\ r.phi =
                       (IF FGe(r.epsilon_t, Dec(5, -3)) THEN Dec(9, -1)
                        ELSE IF FLe(r.epsilon_t, Dec(2, -3)) THEN Dec(65, -2)
                        ELSE FAdd(Dec(65, -2),
                                  FDiv(FMul(Dec(25, -2), FSub(r.epsilon_t, Dec(2, -3))),
                                       FSub(Dec(5, -3), Dec(2, -3)))))
                  /\ r.status_code = "ok" => r.phi = Dec(9, -1)
                  /\ FLt(r.phi, Dec(9, -1)) => r.status_code = "warning"

\* A result in the transition zone: phi lies strictly between the two limits.
C28_Witness ==
    /\ call.op = "flexure"
    /\ ~call.out.raised
    /\ call.out.res.status_code = "warning"
    /\ FGt(call.out.res.epsilon_t, Dec(2, -3))
    /\ FLt(call.out.res.epsilon_t, Dec(5, -3))
    /\ FGt(call.out.res.phi, Dec(65, -2))
    /\ FLt(call.out.res.phi, Dec(9, -1))

-----------------------------------------------------------------------------
(* Properties of the shear design                                           *)

\* C25: when calculate_shear returns a numeric s_req it is at most s_max, and
\* s_max is min(d/2, 60 cm) when Vs_req <= 0.33 * sqrt(fc) * b * d and
\* min(d/4, 30 cm) otherwise; when 0.5 * phi * Vc < |Vu| <= phi * Vc the
\* reported Vs_req is 0, the status is "Minimum Stirrups Required" and s_req is
\* numeric.
C25_SpacingAndMinimumStirrups ==
    (/\ call.op = "shear"
     /\ ~call.out.raised
     /\ validate_section_geometry(section) = <<>>) =>
        LET r == call.out.res
            b_mm == cm_to_mm(section.b)
            d_mm == cm_to_mm(section.d)
            Vu_N == kN_to_N(FAbs(call.load))
            Vc == _compute_Vc(section.fc, b_mm, d_mm)
            phi_Vc == FMul(PHI_SHEAR, Vc)
            Vs_req == FSub(FDiv(Vu_N, PHI_SHEAR), Vc)
        IN  /\ r.s_req # None =>
                  /\ FLe(r.s_req, r.s_max)
                  /\ r.s_max =
                       (IF FLe(Vs_req, FMul(FMul(FMul(Dec(33, -2), FSqrt(section.fc)),
                                                 b_mm), d_mm))
                        THEN mm_to_cm(FMin(FDiv(d_mm, FromInt(2)), FromInt(600)))
                        ELSE mm_to_cm(FMin(FDiv(d_mm, FromInt(4)), FromInt(300))))
            /\ (FGt(Vu_N, FMul(Dec(5, -1), phi_Vc)) /\ FLe(Vu_N, phi_Vc)) =>
                  /\ r.Vs_req = Zero
                  /\ r.status = <<"Minimum Stirrups Required">>
                  /\ r.s_req # None

\* C29: every numeric s_max that calculate_shear returns is at most 60 cm, on
\* every path that reports one, the path without stirrups included, whatever
\* the effective depth.
C29_MaxSpacingCapped ==
    (/\ call.op = "shear"
     /\ ~call.out.raised
     /\ call.out.res.s_max # None) =>
        FLe(call.out.res.s_max, FromInt(60))

-----------------------------------------------------------------------------
(* Properties of the torsion bar distribution                               *)

\* C26: for every Al > 0 and every requested bar count, a returned
\* distribution has n_bars >= 4, n_bottom >= 2, n_top >= 2 and n_side_each >= 0,
\* the two side faces carry n_side_each bars each, and an odd leftover bar goes
\* to the bottom face only: n_bottom - n_top is 0 or 1, and 1 exactly when the
\* leftover is odd, unless the side count would be negative.
C26_FaceCounts ==
    (/\ helper.op = "distribute"
     /\ ~helper.out.raised
     /\ FGt(helper.args[1], Zero)) =>
        LET o == helper.out.res
            b_inner == FMax(FSub(helper.args[2], FMul(FromInt(2), helper.args[4])), Zero)
            h_inner == FMax(FSub(helper.args[3], FMul(FromInt(2), helper.args[4])), Zero)
            ph == FMax(FMul(FromInt(2), FAdd(b_inner, h_inner)), Dec(1, -9))
            wanted == PyRound(FDiv(FMul(FromInt(o.n_bars), b_inner), ph))
            n_face == IF wanted > 2 THEN wanted ELSE 2
            leftover == o.n_bars - 2 * n_face
        IN  /\ o.n_bars >= 4
            /\ o.n_bars >= helper.args[5]
            /\ o.n_bars = 4 \/ o.n_bars = helper.args[5]
            /\ o.n_bottom >= 2
            /\ o.n_top >= 2
            /\ o.n_side_each >= 0
            /\ o.n_bottom + o.n_top + 2 * o.n_side_each = o.n_bars
            /\ leftover >= 0 =>
                  /\ o.n_top = n_face
                  /\ o.n_bottom - o.n_top \in {0, 1}
                  /\ o.n_bottom - o.n_top = 1 <=> leftover % 2 = 1
                  /\ o.n_side_each = leftover \div 2
            /\ leftover < 0 =>
                  /\ o.n_side_each = 0
                  /\ o.n_top - o.n_bottom \in {0, 1}

\* Thirteen bars leave an odd number for the sides: the bottom face takes one
\* more than the top and the sides share the rest.
C26_Witness ==
    /\ helper.op = "distribute"
    /\ ~helper.out.raised
    /\ FGt(helper.args[1], Zero)
    /\ helper.out.res.n_bars = 13
    /\ helper.out.res.n_bottom = helper.out.res.n_top + 1
    /\ helper.out.res.n_side_each >= 1

\* C27: in every report build_design_report builds, torsion_distribution.al_total
\* is the torsion result's Al_req, and it is positive exactly when the torsion
\* status is "Torsion Reinforcement Required"; in every other torsion outcome
\* the areas and the face bar counts of the distribution are all zero.
C27_DistributionFollowsTorsion ==
    \A i \in 1..Len(reports) :
        ~reports[i].out.raised =>
            LET t == reports[i].out.bundle.torsion_res
                d == reports[i].out.bundle.torsion_dist
                required == t.status = <<"Torsion Reinforcement Required">>
            IN  /\ d.al_total = t.Al_req
                /\ FGt(d.al_total, Zero) <=> required
                /\ reports[i].out.payload.torsion_distribution.al_total = t.Al_req
                /\ required =>
                      /\ t.status_code = "warning"
                      /\ d.n_bottom >= 2 /\ d.n_top >= 2
                      /\ FGt(d.al_bottom, Zero) /\ FGt(d.al_top, Zero)
                /\ ~required =>
                      /\ d.al_total = Zero /\ d.al_per_bar = Zero
                      /\ d.al_bottom = Zero /\ d.al_top = Zero
                      /\ d.al_side_each = Zero
                      /\ d.n_bottom = 0 /\ d.n_top = 0 /\ d.n_side_each = 0

\* A report whose torsion needs reinforcement, with its Al_req distributed.
C27_Witness ==
    \E i \in 1..Len(reports) :
        /\ ~reports[i].out.raised
        /\ reports[i].out.bundle.torsion_res.status = <<"Torsion Reinforcement Required">>
        /\ FGt(reports[i].out.bundle.torsion_res.Al_req, Zero)
        /\ reports[i].out.bundle.torsion_dist.al_total
             = reports[i].out.bundle.torsion_res.Al_req
        /\ reports[i].out.bundle.torsion_dist.n_side_each >= 1

-----------------------------------------------------------------------------
(* Properties of the trace of sign normalisations                           *)

\* C30: in the result of an engine call on a valid section, each negative load
\* gives exactly one sign-normalisation warning entry, these entries are the
\* first of the trace, Tu's before Vu's in torsion, every entry after them is
\* a computation entry, a load >= 0 gives none, and changing the sign of a
\* load leaves status_code as it is.
C30_SignEntriesFirst ==
    (/\ call.op \in {"flexure", "shear", "torsion"}
     /\ ~call.out.raised
     /\ validate_section_geometry(section) = <<>>) =>
        LET tr == call.out.res.trace
            first == IF call.op = "flexure" THEN "Mu"
                     ELSE IF call.op = "shear" THEN "Vu" ELSE "Tu"
            negs == (IF FLt(call.load, Zero) THEN <<first>> ELSE <<>>)
                    \o (IF call.op = "torsion" /\ FLt(call.vu, Zero)
                        THEN <<"Vu">> ELSE <<>>)
            flipped ==
                IF call.op = "flexure"
                THEN {calculate_flexure(section, FNeg(call.load))}
                ELSE IF call.op = "shear"
                THEN {calculate_shear(section, FNeg(call.load), call.n_legs,
                                      call.stirrup_diameter)}
                ELSE {calculate_torsion(section, FNeg(call.load), call.vu),
                      calculate_torsion(section, call.load, FNeg(call.vu)),
                      calculate_torsion(section, FNeg(call.load), FNeg(call.vu))}
        IN  /\ Len(tr) >= Len(negs)
            /\ \A n \in 1..Len(negs) :
                  /\ tr[n].code_ref = "Input Policy"
                  /\ tr[n].formula_id = <<negs[n], "_SIGN_NORMALIZATION">>
                  /\ tr[n].status = "warning"
            /\ \A n \in (Len(negs) + 1)..Len(tr) :
                  /\ tr[n].code_ref # "Input Policy"
                  /\ Len(tr[n].formula_id) = 1
            /\ \A other \in flipped :
                  /\ ~other.raised
                  /\ other.res.status_code = call.out.res.status_code

\* A torsion design with both loads negative: the entry of Tu, then that of
\* Vu, then the threshold torsion.
C30_Witness ==
    /\ call.op = "torsion"
    /\ ~call.out.raised
    /\ FLt(call.load, Zero)
    /\ FLt(call.vu, Zero)
    /\ Len(call.out.res.trace) >= 3
    /\ call.out.res.trace[1].formula_id = <<"Tu", "_SIGN_NORMALIZATION">>
    /\ call.out.res.trace[2].formula_id = <<"Vu", "_SIGN_NORMALIZATION">>
    /\ call.out.res.trace[3].formula_id = <<"T_th">>

=============================================================================
